---- MODULE Spec2Model ----
(***************************************************************************)
(* KeyManager of gemini-balance-edge (priority-queue version,              *)
(* src/src/deno_index.ts): key selection, health state machine, weight     *)
(* decay / recovery and global reset; the dispatcher handleRequest         *)
(* (src/unnamed/part_009), RetryHandler (src/src/retry_handler.js) and     *)
(* StreamHandler (src/src/test_key_manager.js).                            *)
(*                                                                         *)
(* Weights are JavaScript numbers in the source.  Every weight the model   *)
(* reaches is a decimal fraction with at most MaxErrorCount + 2 digits, so *)
(* a weight w is held exactly as the integer w * Scale.  Times are         *)
(* milliseconds, as returned by Date.now().                                *)
(***************************************************************************)
EXTENDS Integers, Sequences, FiniteSets, Bags, TLC

\* ---------------------------------------------------------------- bounds
MaxErrorCount == 2
MaxTicks == 2
TimeUnit == 30000
MaxResets == 1
HistoryLen == 2
MaxStreams == 2
MaxChunks == 2
MaxSelections == 12
MaxBlocks == 2
MaxLen == 5
MaxAttempt == 5
MaxIntervals == 11
MaxChecks == 1

RECURSIVE Pow10(_)
Pow10(n) == IF n = 0 THEN 1 ELSE 10 * Pow10(n - 1)

Scale == Pow10(MaxErrorCount + 2)

\* ------------------------------------------------- KEY_MANAGER_CONFIG
\* fractions of the configuration are held in tenths
minWeightTenths == 1
recoveryRateTenths == 1
healthThresholdTenths == 5
recoveryInterval == 60000
maxRecoveryAttempts == 10
temporaryUnhealthyWindow == 60000
forcedWeightHundredths == 5

minWeight == (minWeightTenths * Scale) \div 10

\* config.errorPenalties[errorCode] || config.errorPenalties.default, in tenths
errorPenalties(errorCode) ==
  CASE errorCode = 429 -> 5
    [] errorCode = 503 -> 3
    [] errorCode = 500 -> 7
    [] errorCode = 502 -> 6
    [] errorCode = 504 -> 6
    [] errorCode = 401 -> 1
    [] errorCode = 403 -> 1
    [] OTHER -> 8

\* error codes reported to handleKeyError in the model
ErrorCodes == {401, 429, 503}

\* null for a key or a return value
NULL == "null"
\* state.priorityQueues = null.  The Map is never empty between two calls
\* (a rebuild fills it from a non-empty list), so null and the empty Map
\* share one value.
NoQueues == <<>>

\* ------------------------------------------------------------ helpers
Max(a, b) == IF a >= b THEN a ELSE b
Min(a, b) == IF a <= b THEN a ELSE b

\* Math.round of the real number num / den (den > 0): floor(x + 1/2)
MathRound(num, den) == (2 * num + den) \div (2 * den)

\* Array.from(set).sort((a, b) => b - a)
RECURSIVE SortDesc(_)
SortDesc(S) ==
  IF S = {} THEN <<>>
  ELSE LET m == CHOOSE x \in S : \A y \in S : y <= x
       IN <<m>> \o SortDesc(S \ {m})

Range(s) == {s[i] : i \in DOMAIN s}

\* the last n elements of s
LastN(s, n) == IF Len(s) <= n THEN s ELSE SubSeq(s, Len(s) - n + 1, Len(s))

\* ---------------------------------------------------------- _parseKeys
\* A keys string is a sequence of comma-separated entries; an entry is its
\* trimmed key text and its weight text: "none" (no ':', weight 1), "nan"
\* (parseInt gives NaN, weight 1) or "int" with the integer parseInt gives.
_parseKeys(keysString) ==
  LET parse(item) ==
        LET normalizedWeight == IF item.weight = "int" THEN item.value ELSE 1
        IN [key |-> item.key,
            originalWeight |-> normalizedWeight * Scale,
            dynamicWeight |-> normalizedWeight * Scale,
            healthy |-> TRUE,
            errorCount |-> 0,
            recoveryAttempts |-> 0,
            lastErrorCode |-> 0,
            lastRecoveryAttempt |-> 0,
            temporaryUnhealthy |-> FALSE,
            temporaryUnhealthyUntil |-> 0]
      parsed == [i \in DOMAIN keysString |-> parse(keysString[i])]
      nonBlank(k) == k.key # ""
  IN SelectSeq(parsed, nonBlank)

E(k, w, v) == [key |-> k, weight |-> w, value |-> v]

\* the keys strings pools are created from
KeysStrings ==
  { <<E("a", "int", 1), E("b", "int", 1)>>,
    <<E("a", "int", 2), E("b", "none", 0)>>,
    <<E("a", "nan", 0), E("", "int", 3), E("b", "int", 0)>> }

VARIABLES
  keys,                 \* state.keys
  priorityQueues,       \* state.priorityQueues: priority -> queue
  priorityList,         \* state.priorityList
  currentPriorityIndex, \* state.currentPriorityIndex
  currentQueueIndex,    \* state.currentQueueIndex
  lastSelectedKey,      \* state.lastSelectedKey
  totalResetCount,      \* state.totalResetCount
  lastGlobalReset,      \* state.lastGlobalReset
  now,                  \* Date.now()
  history               \* the last selectKey() results, newest last,
                        \* since the last call of another method

\* module state of the dispatcher (handleRequest)
VARIABLES
  lastSuccessfulKey,    \* let lastSuccessfulKey
  lastKeyTimestamp,     \* let lastKeyTimestamp
  cache,                \* performanceOptimizer.cache: the cache keys held
  handled,              \* what handleRequest did with the last request
  cacheValues,          \* performanceOptimizer.cache: cache key -> item, in
                        \* the runs that follow optimizeRequest on its own
  served                \* what optimizeRequest did with the last request

\* the observer of the rotation
VARIABLES
  selectCount           \* index of a record -> how often selectKey() has
                        \* returned its key, in the runs that count

\* the KeyManager of utils.js (smooth weighted round-robin)
VARIABLES
  swrrState,            \* this.state: keys, totalResetCount, lastGlobalReset
  swrrRun               \* the selectKey() calls of the current block of
                        \* sum(w_i) calls: their number, and per record how
                        \* often its key was returned; blocks: blocks done

\* a KeyManager constructed from a keys string given as text
VARIABLES
  parseRun,             \* keysString: the characters of the string;
                        \* initialKeys: this.initialKeys; done: constructed;
                        \* hasState, keys: this.state and this.state.keys
  logged                \* LOG_LEVEL and the entries the logger has written

\* one executeWithRetry() call of RetryHandler
VARIABLES
  attempt,              \* let attempt
  apiCalls,             \* the outcomes of the apiCall() invocations so far
  retryOutcome,         \* "idle", "running", "returned" or "thrown"
  retryKey,             \* the parameter selectedKey
  retryOptions,         \* the parameter options: [maxAttempts, errorCode]
  handleKeyErrorCalls,  \* the handleKeyError calls the execution has made
  retryCheck            \* one shouldRetry(errorCode, attempt) call:
                        \* [errorCode, attempt, result]

\* StreamHandler
VARIABLES
  activeStreams,        \* this.activeStreams: streamId -> info
  streamStats,          \* this.streamStats
  streamBodies          \* streamId -> the ReadableStream returned: its state,
                        \* its queue, what the consumer has read from it
                        \* (consumed), what reader.read() has given
                        \* (received), and the state of the upstream body

VARIABLES
  last_checked,         \* key.last_checked of the records of state.keys, by
                        \* index, kept where healthCheck() runs and reads it
  healthCheckRun        \* the healthCheck() that awaits _testApiKey(): the
                        \* record awaited (0 when none) and its const now

VARIABLES
  inFlight              \* the handleRequest calls that await the handler in
                        \* optimizeRequest, one per id in activeRequests: the
                        \* request and the key resolved for it

cacheVars == <<cacheValues, served>>
probeVars == <<last_checked, healthCheckRun>>
dispatchVars == <<lastSuccessfulKey, lastKeyTimestamp, cache, handled, cacheVars>>
rotationVars == <<selectCount>>
swrrVars == <<swrrState, swrrRun>>
textVars == <<parseRun, logged>>
retryVars == <<attempt, apiCalls, retryOutcome, retryKey, retryOptions,
              handleKeyErrorCalls, retryCheck>>
streamVars == <<activeStreams, streamStats, streamBodies>>

vars == <<keys, priorityQueues, priorityList, currentPriorityIndex,
          currentQueueIndex, lastSelectedKey, totalResetCount,
          lastGlobalReset, now, history, dispatchVars, rotationVars, swrrVars, textVars,
          retryVars, streamVars, probeVars, inFlight>>

\* queues hold references to the key objects: indexes into state.keys
Priority(k) == Max(1, MathRound(k.dynamicWeight * 10, Scale))

\* --------------------------------------------------- initState
initState(keysString) ==
  /\ keys = _parseKeys(keysString)
  /\ priorityQueues = NoQueues
  /\ priorityList = <<>>
  /\ currentPriorityIndex = 0
  /\ currentQueueIndex = 0
  /\ lastSelectedKey = NULL
  /\ totalResetCount = 0
  /\ lastGlobalReset = 0

\* ------------------------------------- the other components at start
\* an upstream outcome: a response with its status, or a thrown exception
Resp(status) == [kind |-> "response", status |-> status]
NetworkError == [kind |-> "NetworkError", status |-> 0]
AbortError == [kind |-> "AbortError", status |-> 0]
\* response.ok
ok(response) ==
  response.kind = "response" /\ response.status >= 200 /\ response.status <= 299

\* no upstream call was made
NoUpstream == [kind |-> "none", status |-> 0]

\* a request: the words of its Authorization header (none when the header
\* is absent), its x-goog-api-key header (NULL when absent), the segments of
\* its pathname and whether it asks for a stream (alt=sse)
R(authorization, xGoogApiKey, pathname, isStream) ==
  [Authorization |-> authorization, xGoogApiKey |-> xGoogApiKey,
   pathname |-> pathname, isStream |-> isStream]

\* handled before any request came in
NoRequest ==
  [request |-> R(<<>>, NULL, <<>>, FALSE),
   upstream |-> NoUpstream,
   usingServerKeys |-> FALSE,
   selectedKey |-> NULL,
   fromOperatorPool |-> FALSE,
   selectKeyReturned |-> <<>>,
   fetches |-> 0,
   outbound |-> [Authorization |-> <<>>, xGoogApiKey |-> NULL, url |-> <<>>],
   reported |-> <<>>,
   status |-> 0,
   streamed |-> FALSE]

\* nothing has gone through optimizeRequest
NotServed ==
  [request |-> [method |-> "", pathname |-> <<>>, query |-> "", body |-> "",
                apiKey |-> NULL],
   fetches |-> 0, fromCache |-> FALSE,
   response |-> [status |-> 0, contentType |-> "", body |-> NULL]]

initRotation == selectCount = [i \in DOMAIN keys |-> 0]

\* no KeyManager has been constructed from a text
NoParseRun(keysString) ==
  [keysString |-> keysString, initialKeys |-> <<>>, done |-> FALSE,
   hasState |-> FALSE, keys |-> <<>>]

\* LOG_LEVEL unset: LOG_LEVELS.INFO
NothingLogged(level) == [LOG_LEVEL |-> level, entries |-> {}]

initText ==
  /\ parseRun = NoParseRun(<<>>)
  /\ logged = NothingLogged("INFO")

\* utils.js _parseKeys(keysString): every entry gives a record
utils_parseKeys(keysString) ==
  [i \in DOMAIN keysString |->
     LET item == keysString[i]
         normalizedWeight == IF item.weight = "int" THEN item.value ELSE 1
     IN [key |-> item.key,
         originalWeight |-> normalizedWeight * Scale,
         currentWeight |-> 0,
         dynamicWeight |-> normalizedWeight * Scale,
         healthy |-> TRUE,
         errorCount |-> 0,
         recoveryAttempts |-> 0,
         lastErrorCode |-> 0,
         lastRecoveryAttempt |-> 0]]

\* utils.js initState(), for the pool "a:1,b:1" where another is not chosen
utils_initState(keysString) ==
  /\ swrrState = [keys |-> utils_parseKeys(keysString), totalResetCount |-> 0,
                  lastGlobalReset |-> 0]
  /\ swrrRun = [blocks |-> 0, calls |-> 0,
                counts |-> [i \in DOMAIN keysString |-> 0]]

initSwrr == utils_initState(<<E("a", "int", 1), E("b", "int", 1)>>)

initDispatcher ==
  /\ lastSuccessfulKey = NULL
  /\ lastKeyTimestamp = 0
  /\ cache = {}
  /\ handled = NoRequest
  /\ cacheValues = <<>>
  /\ served = NotServed
  /\ inFlight = EmptyBag

initRetry ==
  /\ attempt = 0
  /\ apiCalls = <<>>
  /\ retryOutcome = "idle"
  /\ retryKey = NULL
  /\ retryOptions = [maxAttempts |-> 3, errorCode |-> 0]
  /\ handleKeyErrorCalls = 0
  /\ retryCheck = [errorCode |-> 0, attempt |-> 1, result |-> "none"]

initProbes ==
  /\ last_checked = <<>>
  /\ healthCheckRun = [awaited |-> 0, now |-> 0]

initStreams ==
  /\ activeStreams = <<>>
  /\ streamStats = [totalStreams |-> 0, activeStreams |-> 0,
                    completedStreams |-> 0, errorStreams |-> 0]
  /\ streamBodies = <<>>

Init ==
  /\ \E keysString \in KeysStrings : initState(keysString)
  /\ now = 0
  /\ history = <<>>
  /\ initRotation
  /\ initSwrr
  /\ initText
  /\ initDispatcher
  /\ initRetry
  /\ initStreams
  /\ initProbes

\* --------------------------------------------------- _attemptWeightRecovery
_attemptWeightRecovery(ks, t) ==
  [i \in DOMAIN ks |->
    LET key == ks[i] IN
    IF /\ key.dynamicWeight < key.originalWeight
       /\ t - key.lastRecoveryAttempt >= recoveryInterval
       /\ key.recoveryAttempts < maxRecoveryAttempts
    THEN LET recoveryAmount == (key.originalWeight * recoveryRateTenths) \div 10
             w == Min(key.dynamicWeight + recoveryAmount, key.originalWeight)
         IN [key EXCEPT !.dynamicWeight = w,
                        !.lastRecoveryAttempt = t,
                        !.recoveryAttempts = @ + 1,
                        !.healthy =
                          IF 10 * w >= key.originalWeight * healthThresholdTenths
                          THEN TRUE ELSE @]
    ELSE key]

\* --------------------------------------------------- _checkTemporaryRecovery
_checkTemporaryRecovery(ks, t) ==
  [i \in DOMAIN ks |->
    LET key == ks[i] IN
    IF /\ key.temporaryUnhealthy
       /\ key.temporaryUnhealthyUntil # 0
       /\ t >= key.temporaryUnhealthyUntil
    THEN [key EXCEPT !.healthy = TRUE,
                     !.temporaryUnhealthy = FALSE,
                     !.temporaryUnhealthyUntil = 0]
    ELSE key]

\* --------------------------------------------------- _resetAllKeys
\* _resetAllKeys without totalResetCount++
_resetAllKeys_NoCount(st, t) ==
  [ks |-> [i \in DOMAIN st.ks |->
            [st.ks[i] EXCEPT !.healthy = TRUE,
                             !.dynamicWeight = st.ks[i].originalWeight,
                             !.errorCount = 0,
                             !.recoveryAttempts = 0,
                             !.lastRecoveryAttempt = t]],
   q |-> [pq |-> NoQueues, pl |-> <<>>, pi |-> 0, qi |-> 0, last |-> NULL],
   total |-> st.total,
   last |-> t]

\* _resetAllKeys that leaves errorCount and recoveryAttempts as they are
_resetAllKeys_KeepCounters(st, t) ==
  [ks |-> [i \in DOMAIN st.ks |->
            [st.ks[i] EXCEPT !.healthy = TRUE,
                             !.dynamicWeight = st.ks[i].originalWeight,
                             !.lastRecoveryAttempt = t]],
   q |-> [pq |-> NoQueues, pl |-> <<>>, pi |-> 0, qi |-> 0, last |-> NULL],
   total |-> st.total + 1,
   last |-> t]

\* st: [ks, q, total, last]: the records, the queue state, totalResetCount
\* and lastGlobalReset
_resetAllKeys(st, t) ==
  [ks |-> [i \in DOMAIN st.ks |->
            [st.ks[i] EXCEPT !.healthy = TRUE,
                             !.dynamicWeight = st.ks[i].originalWeight,
                             !.errorCount = 0,
                             !.recoveryAttempts = 0,
                             !.lastRecoveryAttempt = t]],
   q |-> [pq |-> NoQueues, pl |-> <<>>, pi |-> 0, qi |-> 0, last |-> NULL],
   total |-> st.total + 1,
   last |-> t]

\* --------------------------------------------------- _rebuildPriorityQueues
\* sel: the indexes (in state.keys order) of the records passed in; ks: the
\* records; q: the queue state [pq, pl, pi, qi, last]
_rebuildPriorityQueues(sel, ks, q) ==
  LET uniquePriorities == {Priority(ks[sel[j]]) : j \in DOMAIN sel}
      newPriorityList == SortDesc(uniquePriorities)
      needRebuild == newPriorityList # q.pl
      samePriority(p) == LET t(i) == Priority(ks[i]) = p IN SelectSeq(sel, t)
  IN IF needRebuild
     THEN [q EXCEPT !.pq = [p \in uniquePriorities |-> samePriority(p)],
                    !.pl = newPriorityList,
                    !.pi = 0,
                    !.qi = 0]
     ELSE q

\* --------------------------------------------------- _selectFromPriorityQueue
\* returns [q |-> queue state afterwards, ret |-> key or NULL]
_selectFromPriorityQueue(ks, q) ==
  LET n == Len(q.pl)
      priAt(i) == (q.pi + i) % n
      queueAt(i) == q.pq[q.pl[priAt(i) + 1]]
      usable(i) ==
        /\ Len(queueAt(i)) # 0
        /\ ~(Len(queueAt(i)) = 1 /\ ks[queueAt(i)[1]].key = q.last)
      found == {i \in 0 .. n - 1 : usable(i)}
  IN IF n = 0 THEN [q |-> q, ret |-> NULL]
     ELSE IF found # {}
     THEN LET i == CHOOSE x \in found : \A y \in found : x <= y
              queue == queueAt(i)
              selectedKeyObj == ks[queue[(q.qi % Len(queue)) + 1]]
              rotated == IF Len(queue) > 1
                         THEN Tail(queue) \o <<Head(queue)>> ELSE queue
          IN [q |-> [q EXCEPT !.pq[q.pl[priAt(i) + 1]] = rotated,
                              !.pi = priAt(i),
                              !.qi = (q.qi + 1) % Len(queue),
                              !.last = selectedKeyObj.key],
              ret |-> selectedKeyObj.key]
     ELSE LET queue == q.pq[q.pl[1]]
          IN IF Len(queue) > 0
             THEN LET selectedKeyObj == ks[queue[(q.qi % Len(queue)) + 1]]
                  IN [q |-> [q EXCEPT !.pi = 0,
                                      !.qi = (q.qi + 1) % Len(queue),
                                      !.last = selectedKeyObj.key],
                      ret |-> selectedKeyObj.key]
             ELSE [q |-> q, ret |-> NULL]

\* --------------------------------------------------- _initPriorityQueueIfNeeded
_initPriorityQueueIfNeeded(q) ==
  IF q.pq = NoQueues
  THEN [pq |-> <<>>, pl |-> <<>>, pi |-> 0, qi |-> 0, last |-> NULL]
  ELSE q

\* --------------------------------------------------- _selectFromAvailable
_selectFromAvailable(sel, ks, q) ==
  IF Len(sel) = 0 THEN [q |-> q, ret |-> NULL]
  ELSE CHOOSE r \in
         {_selectFromPriorityQueue(ks, rebuilt) :
            rebuilt \in {_rebuildPriorityQueues(sel, ks,
                                                _initPriorityQueueIfNeeded(q))}} :
         TRUE

\* --------------------------------------------------- selectKey
Indexes(ks) == [i \in DOMAIN ks |-> i]

isAvailable_HealthyOnly(k) == k.healthy

isAvailable(k) == k.healthy \/ k.dynamicWeight >= minWeight

\* the records after the recovery and expiry steps selectKey starts with
AfterRecovery(ks, t) == _checkTemporaryRecovery(_attemptWeightRecovery(ks, t), t)

State ==
  [ks |-> keys,
   q |-> [pq |-> priorityQueues, pl |-> priorityList,
          pi |-> currentPriorityIndex, qi |-> currentQueueIndex,
          last |-> lastSelectedKey],
   total |-> totalResetCount,
   last |-> lastGlobalReset]

\* [st, ret, reset]: the state afterwards, the return value, whether a
\* global reset was performed
selectKeyOutcome(st0, t) ==
  CHOOSE o \in
    { LET st == [st0 EXCEPT !.ks = ks]
          avail(i) == isAvailable(ks[i])
          available == SelectSeq(Indexes(ks), avail)
          isHealthy(i) == ks[i].healthy
          healthy == SelectSeq(available, isHealthy)
      IN IF Len(st0.ks) = 0
         THEN [st |-> st0, ret |-> NULL, reset |-> FALSE]
         ELSE IF Len(available) = 0
         THEN CHOOSE c \in
                {[st |-> [p.rs EXCEPT !.q = p.r.q], ret |-> p.r.ret,
                  reset |-> TRUE] :
                   p \in {[rs |-> rs,
                           r |-> _selectFromAvailable(Indexes(rs.ks), rs.ks,
                                                      rs.q)] :
                            rs \in {_resetAllKeys(st, t)}}} : TRUE
         ELSE IF Len(healthy) > 0
         THEN CHOOSE c \in
                {[st |-> [st EXCEPT !.q = r.q], ret |-> r.ret, reset |-> FALSE] :
                   r \in {_selectFromAvailable(healthy, ks, st.q)}} : TRUE
         ELSE CHOOSE c \in
                {[st |-> [st EXCEPT !.q = r.q], ret |-> r.ret, reset |-> FALSE] :
                   r \in {_selectFromAvailable(available, ks, st.q)}} : TRUE :
      ks \in {AfterRecovery(st0.ks, t)} } : TRUE

SetState(st) ==
  /\ keys' = st.ks
  /\ priorityQueues' = st.q.pq
  /\ priorityList' = st.q.pl
  /\ currentPriorityIndex' = st.q.pi
  /\ currentQueueIndex' = st.q.qi
  /\ lastSelectedKey' = st.q.last
  /\ totalResetCount' = st.total
  /\ lastGlobalReset' = st.last

selectKey ==
  \E o \in {selectKeyOutcome(State, now)} :
     /\ o.reset => totalResetCount < MaxResets
     /\ SetState(o.st)
     /\ history' = LastN(Append(history, o.ret), HistoryLen)
     /\ UNCHANGED <<now, dispatchVars, rotationVars, swrrVars, textVars, probeVars, retryVars, streamVars, inFlight>>

\* ------------------------------------------------- selectKey(), counted
RECURSIVE Sum(_, _)
Sum(f, S) == IF S = {} THEN 0
             ELSE LET x == CHOOSE x \in S : TRUE IN f[x] + Sum(f, S \ {x})

\* selectKey() with its return value counted
selectKeyCounted ==
  \E o \in {selectKeyOutcome(State, now)} :
     /\ Sum(selectCount, DOMAIN selectCount) < MaxSelections
     /\ o.reset => totalResetCount < MaxResets
     /\ SetState(o.st)
     /\ history' = LastN(Append(history, o.ret), HistoryLen)
     /\ selectCount' = [i \in DOMAIN selectCount |->
                          IF o.st.ks[i].key = o.ret THEN selectCount[i] + 1
                          ELSE selectCount[i]]
     /\ UNCHANGED <<now, dispatchVars, swrrVars, textVars, probeVars, retryVars, streamVars, inFlight>>

\* --------------------------------------------------- _updateKeyHealthStatus
_updateKeyHealthStatus(keyToUpdate, errorCode, t) ==
  IF errorCode = 401 \/ errorCode = 403
  THEN [keyToUpdate EXCEPT !.healthy = FALSE]
  ELSE IF errorCode = 503
  THEN [keyToUpdate EXCEPT !.healthy = FALSE,
                           !.temporaryUnhealthy = TRUE,
                           !.temporaryUnhealthyUntil = t + temporaryUnhealthyWindow]
  ELSE IF keyToUpdate.dynamicWeight <= minWeight
  THEN [keyToUpdate EXCEPT !.healthy = FALSE]
  ELSE keyToUpdate

\* --------------------------------------------------- handleKeyError
\* state.keys.find(k => k.key === apiKey): the first match, 0 when none
Find(ks, apiKey) ==
  LET hits == {i \in DOMAIN ks : ks[i].key = apiKey}
  IN IF hits = {} THEN 0 ELSE CHOOSE i \in hits : \A j \in hits : i <= j

\* the new weight without the minWeight floor
newWeightAfterError_NoFloor(dynamicWeight, errorCode) ==
  (dynamicWeight * errorPenalties(errorCode)) \div 10

newWeightAfterError(dynamicWeight, errorCode) ==
  Max((dynamicWeight * errorPenalties(errorCode)) \div 10, minWeight)

handleKeyErrorOutcome(ks, apiKey, errorCode, t) ==
  LET i == Find(ks, apiKey) IN
  IF i = 0 THEN ks
  ELSE LET counted == [ks[i] EXCEPT !.errorCount = @ + 1,
                                    !.lastErrorCode = errorCode]
           newWeight == newWeightAfterError(counted.dynamicWeight, errorCode)
           weighted == [counted EXCEPT !.dynamicWeight = newWeight]
       IN [ks EXCEPT ![i] = _updateKeyHealthStatus(weighted, errorCode, t)]

\* the keys callers name: those of the pool and one that is not in it
ApiKeys == {keys[i].key : i \in DOMAIN keys} \cup {"x"}

\* keyToUpdate.last_checked = Date.now()
checkedAt(lc, ks, apiKey, t) ==
  IF Find(ks, apiKey) \in DOMAIN lc THEN [lc EXCEPT ![Find(ks, apiKey)] = t]
  ELSE lc

handleKeyError(apiKey, errorCode) ==
  /\ Find(keys, apiKey) # 0 => keys[Find(keys, apiKey)].errorCount < MaxErrorCount
  /\ keys' = handleKeyErrorOutcome(keys, apiKey, errorCode, now)
  /\ last_checked' = checkedAt(last_checked, keys, apiKey, now)
  /\ history' = <<>>
  /\ UNCHANGED <<priorityQueues, priorityList, currentPriorityIndex,
                 currentQueueIndex, lastSelectedKey, totalResetCount,
                 lastGlobalReset, now, dispatchVars, rotationVars, swrrVars, textVars, healthCheckRun, retryVars, streamVars, inFlight>>

\* --------------------------------------------------- recoverKey
recoverKeyOutcome(ks, apiKey, t) ==
  LET i == Find(ks, apiKey) IN
  IF i = 0 THEN ks
  ELSE [ks EXCEPT ![i] = [@ EXCEPT !.healthy = TRUE,
                                   !.dynamicWeight = ks[i].originalWeight,
                                   !.errorCount = 0,
                                   !.recoveryAttempts = 0,
                                   !.lastRecoveryAttempt = t,
                                   !.temporaryUnhealthy = FALSE,
                                   !.temporaryUnhealthyUntil = 0,
                                   !.lastErrorCode = 0]]

recoverKey(apiKey) ==
  /\ keys' = recoverKeyOutcome(keys, apiKey, now)
  /\ history' = <<>>
  /\ UNCHANGED <<priorityQueues, priorityList, currentPriorityIndex,
                 currentQueueIndex, lastSelectedKey, totalResetCount,
                 lastGlobalReset, now, dispatchVars, rotationVars, swrrVars, textVars, probeVars, retryVars, streamVars, inFlight>>

\* --------------------------------------------------- markAsUnhealthy
\* markAsUnhealthy(apiKey): this.handleKeyError(apiKey, 500, ...)
markAsUnhealthy(apiKey) == handleKeyError(apiKey, 500)

\* --------------------------------------------------- time
\* Date.now() moves on between two calls
Tick ==
  /\ now + TimeUnit <= MaxTicks * TimeUnit
  /\ now' = now + TimeUnit
  /\ UNCHANGED <<keys, priorityQueues, priorityList, currentPriorityIndex,
                 currentQueueIndex, lastSelectedKey, totalResetCount,
                 lastGlobalReset, history, dispatchVars, rotationVars, swrrVars, textVars, probeVars, retryVars, streamVars, inFlight>>

\* a KeyManager whose keys are marked, and reported with errors
NextMark ==
  \/ \E apiKey \in ApiKeys : markAsUnhealthy(apiKey)
  \/ \E apiKey \in ApiKeys, errorCode \in ErrorCodes : handleKeyError(apiKey, errorCode)
  \/ Tick

SpecMark == Init /\ [][NextMark]_vars

\* --------------------------------------------------- recovery over time
\* Date.now() moves on by one recovery interval
Elapse ==
  /\ now + recoveryInterval <= MaxIntervals * recoveryInterval
  /\ now' = now + recoveryInterval
  /\ UNCHANGED <<keys, priorityQueues, priorityList, currentPriorityIndex,
                 currentQueueIndex, lastSelectedKey, totalResetCount,
                 lastGlobalReset, history, dispatchVars, rotationVars,
                 swrrVars, textVars, probeVars, retryVars, streamVars, inFlight>>

InitRecovery ==
  /\ initState(<<E("a", "int", 1), E("b", "int", 1)>>)
  /\ now = 0
  /\ history = <<>>
  /\ initRotation
  /\ initSwrr
  /\ initText
  /\ initDispatcher
  /\ initRetry
  /\ initStreams
  /\ initProbes

\* a pool that is used for minutes, one of its keys rejected now and then
NextRecovery ==
  \/ selectKey
  \/ handleKeyError("a", 401)
  \/ Elapse

SpecRecovery == InitRecovery /\ [][NextRecovery]_vars

\* --------------------------------------------------- healthCheck
healthCheckInterval == 300000

\* the first record from index from on that healthCheck() tests: unhealthy
\* and not checked for longer than the interval; 0 when there is none
nextDue(ks, lc, from, t) ==
  LET due == {i \in DOMAIN ks : /\ i >= from
                                /\ ~ks[i].healthy
                                /\ t - lc[i] > healthCheckInterval}
  IN IF due = {} THEN 0 ELSE CHOOSE i \in due : \A j \in due : i <= j

\* what the test endpoint answers to a probe, or the fetch throwing
ProbeResults == {Resp(200), Resp(401), AbortError}

\* _testApiKey(apiKey) from the answer of its fetch on: the keys, their
\* last_checked and what it returns
_testApiKey(ks, lc, apiKey, response, t) ==
  IF ok(response)
  THEN [ks |-> IF Find(ks, apiKey) # 0 /\ ~ks[Find(ks, apiKey)].healthy
               THEN recoverKeyOutcome(ks, apiKey, t)
               ELSE ks,
        lc |-> lc,
        returned |-> TRUE]
  ELSE [ks |-> handleKeyErrorOutcome(ks, apiKey,
                 IF response.kind = "response" THEN response.status ELSE 500, t),
        lc |-> checkedAt(lc, ks, apiKey, t),
        returned |-> FALSE]

\* healthCheck() up to its first await: it takes const now and calls
\* _testApiKey for the first record that is due, whose fetch is awaited
healthCheck ==
  /\ healthCheckRun.awaited = 0
  /\ nextDue(keys, last_checked, 1, now) # 0
  /\ healthCheckRun' = [awaited |-> nextDue(keys, last_checked, 1, now),
                        now |-> now]
  /\ UNCHANGED <<keys, priorityQueues, priorityList, currentPriorityIndex,
                 currentQueueIndex, lastSelectedKey, totalResetCount,
                 lastGlobalReset, now, history, last_checked, dispatchVars,
                 rotationVars, swrrVars, textVars, retryVars, streamVars, inFlight>>

\* the awaited fetch settles: the rest of _testApiKey, then of the loop body
\* of healthCheck(), then the loop up to the next await or to its end
healthCheckResume(response) ==
  /\ healthCheckRun.awaited # 0
  /\ ~ok(response) => keys[healthCheckRun.awaited].errorCount < MaxErrorCount
  /\ \E tested \in {_testApiKey(keys, last_checked,
                                 keys[healthCheckRun.awaited].key, response, now)} :
       \E ks \in {IF tested.returned
                   THEN recoverKeyOutcome(tested.ks,
                          keys[healthCheckRun.awaited].key, now)
                   ELSE tested.ks},
          lc \in {[tested.lc EXCEPT ![healthCheckRun.awaited] = healthCheckRun.now]} :
         \E j \in {nextDue(ks, lc, healthCheckRun.awaited + 1, healthCheckRun.now)} :
           /\ keys' = ks
           /\ last_checked' = lc
           /\ healthCheckRun' = [awaited |-> j,
                                 now |-> IF j = 0 THEN 0 ELSE healthCheckRun.now]
  /\ history' = <<>>
  /\ UNCHANGED <<priorityQueues, priorityList, currentPriorityIndex,
                 currentQueueIndex, lastSelectedKey, totalResetCount,
                 lastGlobalReset, now, dispatchVars, rotationVars, swrrVars,
                 textVars, retryVars, streamVars, inFlight>>

\* Date.now() moves on past the next health check
Later ==
  /\ now + healthCheckInterval + recoveryInterval
       <= MaxChecks * (healthCheckInterval + recoveryInterval)
  /\ now' = now + healthCheckInterval + recoveryInterval
  /\ UNCHANGED <<keys, priorityQueues, priorityList, currentPriorityIndex,
                 currentQueueIndex, lastSelectedKey, totalResetCount,
                 lastGlobalReset, history, dispatchVars, rotationVars,
                 swrrVars, textVars, probeVars, retryVars, streamVars, inFlight>>

\* pools whose configured weights are all at least 1
HealthyWeightKeysStrings ==
  { <<E("a", "int", 2), E("b", "none", 0)>> }

InitProbe ==
  /\ \E keysString \in HealthyWeightKeysStrings : initState(keysString)
  /\ now = 0
  /\ history = <<>>
  /\ last_checked = [i \in DOMAIN keys |-> 0]
  /\ healthCheckRun = [awaited |-> 0, now |-> 0]
  /\ initRotation
  /\ initSwrr
  /\ initText
  /\ initDispatcher
  /\ initRetry
  /\ initStreams

\* a KeyManager in use while its health check runs in the background
NextProbe ==
  \/ selectKey
  \/ \E apiKey \in ApiKeys, errorCode \in ErrorCodes : handleKeyError(apiKey, errorCode)
  \/ \E apiKey \in ApiKeys : recoverKey(apiKey)
  \/ healthCheck
  \/ \E response \in ProbeResults : healthCheckResume(response)
  \/ Later

SpecProbe == InitProbe /\ [][NextProbe]_vars

\* --------------------------------------------------- testKeyManager, step 6
\* keys.forEach(key => { key.healthy = false; key.dynamicWeight = 0.05 })
forceAllUnhealthy ==
  /\ totalResetCount < MaxResets
  /\ keys' = [i \in DOMAIN keys |->
               [keys[i] EXCEPT !.healthy = FALSE,
                               !.dynamicWeight = (forcedWeightHundredths * Scale) \div 100]]
  /\ history' = <<>>
  /\ UNCHANGED <<priorityQueues, priorityList, currentPriorityIndex,
                 currentQueueIndex, lastSelectedKey, totalResetCount,
                 lastGlobalReset, now, dispatchVars, rotationVars, swrrVars, textVars, probeVars, retryVars, streamVars, inFlight>>

Next ==
  \/ selectKey
  \/ \E apiKey \in ApiKeys, errorCode \in ErrorCodes : handleKeyError(apiKey, errorCode)
  \/ \E apiKey \in ApiKeys : recoverKey(apiKey)
  \/ Tick

Spec == Init /\ [][Next]_vars

\* runs of selectKey() alone, on pools with unequal integer weights:
\* "k1:10,k2:5,k3:3", "a:2,b" and "a:3,b:2,c:2"
RotationKeysStrings ==
  { <<E("k1", "int", 10), E("k2", "int", 5), E("k3", "int", 3)>>,
    <<E("a", "int", 2), E("b", "none", 0)>>,
    <<E("a", "int", 3), E("b", "int", 2), E("c", "int", 2)>> }

InitRotation ==
  /\ \E keysString \in RotationKeysStrings : initState(keysString)
  /\ now = 0
  /\ history = <<>>
  /\ initRotation
  /\ initSwrr
  /\ initText
  /\ initDispatcher
  /\ initRetry
  /\ initStreams
  /\ initProbes

NextRotation ==
  \/ selectKeyCounted
  \/ Tick

SpecRotation == InitRotation /\ [][NextRotation]_vars

\* pools of three keys with every combination of the weights
PoolWeights == {1, 2, 3}

WeightedKeysStrings ==
  { <<E("k1", "int", w1), E("k2", "int", w2), E("k3", "int", w3)>> :
      w1 \in PoolWeights, w2 \in PoolWeights, w3 \in PoolWeights }

InitRepeated ==
  /\ \E keysString \in WeightedKeysStrings : initState(keysString)
  /\ now = 0
  /\ history = <<>>
  /\ initRotation
  /\ initSwrr
  /\ initText
  /\ initDispatcher
  /\ initRetry
  /\ initStreams
  /\ initProbes

NextRepeated ==
  \/ selectKey
  \/ Tick

\* selectKey() is called again and again, and no error is reported
SpecRepeated == InitRepeated /\ [][NextRepeated]_vars /\ WF_vars(selectKey)

\* the pool testKeyManager is run on: unequal weights
ForcedKeysStrings == { <<E("a", "int", 2), E("b", "none", 0)>> }

InitForced ==
  /\ \E keysString \in ForcedKeysStrings : initState(keysString)
  /\ now = 0
  /\ history = <<>>
  /\ initRotation
  /\ initSwrr
  /\ initText
  /\ initDispatcher
  /\ initRetry
  /\ initStreams
  /\ initProbes

\* the error codes reported in runs of testKeyManager's kind
ForcedErrorCodes == {401, 503}

NextForced ==
  \/ selectKey
  \/ \E apiKey \in ApiKeys, errorCode \in ForcedErrorCodes :
       handleKeyError(apiKey, errorCode)
  \/ \E apiKey \in ApiKeys : recoverKey(apiKey)
  \/ Tick
  \/ forceAllUnhealthy

SpecForced == InitForced /\ [][NextForced]_vars

TypeOK ==
  /\ \A i \in DOMAIN keys : keys[i].dynamicWeight \in Int
  /\ Range(history) \subseteq {keys[i].key : i \in DOMAIN keys} \cup {NULL}

\* ======================================================== StreamHandler
\* generateStreamId(): `stream_${Date.now()}_${random}`, a fresh id; the
\* model numbers the streams
generateStreamId(stats) == stats.totalStreams + 1

\* createStreamResponse(upstreamResponse, selectedKey) at time t.  The
\* ReadableStream calls start() when it is constructed.
createStreamResponseOutcome(as, stats, bodies, selectedKey, t) ==
  LET streamId == generateStreamId(stats) IN
  [activeStreams |-> as @@ (streamId :> [startTime |-> t, key |-> selectedKey,
                                         status |-> "active"]),
   streamStats |-> [stats EXCEPT !.totalStreams = @ + 1,
                                 !.activeStreams = @ + 1],
   streamBodies |-> bodies @@ (streamId :> [state |-> "readable",
                                            queue |-> <<"stream_start">>,
                                            consumed |-> <<>>,
                                            received |-> <<>>,
                                            upstream |-> "open"])]

\* handleStreamEnd(streamId, status)
handleStreamEnd(as, stats, streamId, status) ==
  IF streamId \in DOMAIN as
  THEN [activeStreams |-> [id \in DOMAIN as \ {streamId} |-> as[id]],
        streamStats |-> [stats EXCEPT
                           !.activeStreams = @ - 1,
                           !.completedStreams = IF status = "completed"
                                                THEN @ + 1 ELSE @,
                           !.errorStreams = IF status = "error"
                                            THEN @ + 1 ELSE @]]
  ELSE [activeStreams |-> as, streamStats |-> stats]

\* the methods of the object `this` refers to.  pull and cancel are methods
\* of the underlying source { start, pull, cancel } passed to
\* new ReadableStream(), and the stream calls them with that object as this.
Methods(thisValue) ==
  IF thisValue = "StreamHandler"
  THEN {"createStreamResponse", "optimizeStreamHeaders", "createOptimizedStream",
        "handleStreamEnd", "generateStreamId", "getStreamStats",
        "cleanupTimeoutStreams"}
  ELSE {"start", "pull", "cancel"}

underlyingSource == "underlyingSource"

\* the catch block of pull: this.handleStreamEnd(streamId, 'error');
\* controller.error(error).  A TypeError thrown here rejects the promise
\* pull returned, and the stream errors with it.  An errored stream drops
\* its queue.
pullCatch(as, stats, body, streamId, thisValue, upstream) ==
  LET ended == IF "handleStreamEnd" \in Methods(thisValue)
               THEN handleStreamEnd(as, stats, streamId, "error")
               ELSE [activeStreams |-> as, streamStats |-> stats]
  IN [activeStreams |-> ended.activeStreams, streamStats |-> ended.streamStats,
      body |-> [body EXCEPT !.state = "errored", !.queue = <<>>,
                            !.upstream = upstream]]

\* the values of the chunks of an upstream body
Chunks == {"c1", "c2"}

\* pull that takes a chunk from the upstream and does not enqueue it
pullOutcome_DropChunk(as, stats, body, streamId, thisValue, read) ==
  IF read \in Chunks
  THEN [activeStreams |-> as, streamStats |-> stats,
        body |-> [body EXCEPT !.received = Append(@, read)]]
  ELSE pullCatch(as, stats, body, streamId, thisValue,
                 IF read = "done" THEN "done" ELSE "failed")

\* pull(controller), reader.read() settling as read: a chunk, "done" or
\* "error" (the read rejects)
pullOutcome(as, stats, body, streamId, thisValue, read) ==
  IF read = "error"
  THEN pullCatch(as, stats, body, streamId, thisValue, "failed")
  ELSE IF read = "done"
  THEN IF "handleStreamEnd" \in Methods(thisValue)
       THEN LET ended == handleStreamEnd(as, stats, streamId, "completed")
            IN [activeStreams |-> ended.activeStreams,
                streamStats |-> ended.streamStats,
                body |-> [body EXCEPT !.state = "closed",
                                      !.queue = Append(@, "stream_end"),
                                      !.upstream = "done"]]
       ELSE \* this.handleStreamEnd is not a function
            pullCatch(as, stats, body, streamId, thisValue, "done")
  ELSE [activeStreams |-> as, streamStats |-> stats,
        body |-> [body EXCEPT !.queue = Append(@, read),
                              !.received = Append(@, read)]]

\* cancel(): the stream is closed, and its queue dropped, before the
\* underlying source's cancel runs
cancelOutcome(as, stats, body, streamId, thisValue) ==
  IF "handleStreamEnd" \in Methods(thisValue)
  THEN LET ended == handleStreamEnd(as, stats, streamId, "cancelled")
       IN [activeStreams |-> ended.activeStreams,
           streamStats |-> ended.streamStats,
           body |-> [body EXCEPT !.state = "cancelled", !.queue = <<>>,
                                 !.upstream = "cancelled"]]
  ELSE \* the TypeError comes before reader.cancel()
       [activeStreams |-> as, streamStats |-> stats,
        body |-> [body EXCEPT !.state = "cancelled", !.queue = <<>>]]

RECURSIVE endAll(_, _, _)
\* timeoutStreams.forEach(streamId => this.handleStreamEnd(streamId, 'timeout'))
endAll(as, stats, timeoutStreams) ==
  IF timeoutStreams = {} THEN [activeStreams |-> as, streamStats |-> stats]
  ELSE LET streamId == CHOOSE id \in timeoutStreams : TRUE
           ended == handleStreamEnd(as, stats, streamId, "timeout")
       IN endAll(ended.activeStreams, ended.streamStats,
                 timeoutStreams \ {streamId})

cleanupTimeoutStreamsOutcome(as, stats, timeoutMs, t) ==
  endAll(as, stats, {id \in DOMAIN as : t - as[id].startTime > timeoutMs})

keyVars == <<keys, priorityQueues, priorityList, currentPriorityIndex,
             currentQueueIndex, lastSelectedKey, totalResetCount,
             lastGlobalReset, history>>

createStreamResponse(selectedKey) ==
  /\ streamStats.totalStreams < MaxStreams
  /\ \E o \in {createStreamResponseOutcome(activeStreams, streamStats,
                                           streamBodies, selectedKey, now)} :
       /\ activeStreams' = o.activeStreams
       /\ streamStats' = o.streamStats
       /\ streamBodies' = o.streamBodies
  /\ UNCHANGED <<keyVars, now, dispatchVars, rotationVars, swrrVars, textVars, probeVars, retryVars, inFlight>>

\* the stream calls pull when its queue is below the high-water mark (1,
\* the default: when the queue is empty), and the read of the upstream body
\* settles
pull(streamId, read) ==
  /\ streamId \in DOMAIN streamBodies
  /\ streamBodies[streamId].state = "readable"
  /\ streamBodies[streamId].upstream = "open"
  /\ streamBodies[streamId].queue = <<>>
  /\ read \in Chunks => Len(streamBodies[streamId].received) < MaxChunks
  /\ \E o \in {pullOutcome(activeStreams, streamStats, streamBodies[streamId],
                           streamId, underlyingSource, read)} :
       /\ activeStreams' = o.activeStreams
       /\ streamStats' = o.streamStats
       /\ streamBodies' = [streamBodies EXCEPT ![streamId] = o.body]
  /\ UNCHANGED <<keyVars, now, dispatchVars, rotationVars, swrrVars, textVars, probeVars, retryVars, inFlight>>

\* the consumer of the Response body reads the next record of the queue
consume(streamId) ==
  /\ streamId \in DOMAIN streamBodies
  /\ streamBodies[streamId].state \in {"readable", "closed"}
  /\ streamBodies[streamId].queue # <<>>
  /\ streamBodies' = [streamBodies EXCEPT
                        ![streamId] = [@ EXCEPT
                           !.consumed = Append(@, Head(streamBodies[streamId].queue)),
                           !.queue = Tail(@)]]
  /\ UNCHANGED <<keyVars, now, dispatchVars, rotationVars, swrrVars, textVars, probeVars, retryVars, activeStreams,
                 streamStats, inFlight>>

\* the consumer cancels the body
cancel(streamId) ==
  /\ streamId \in DOMAIN streamBodies
  /\ streamBodies[streamId].state = "readable"
  /\ \E o \in {cancelOutcome(activeStreams, streamStats, streamBodies[streamId],
                             streamId, underlyingSource)} :
       /\ activeStreams' = o.activeStreams
       /\ streamStats' = o.streamStats
       /\ streamBodies' = [streamBodies EXCEPT ![streamId] = o.body]
  /\ UNCHANGED <<keyVars, now, dispatchVars, rotationVars, swrrVars, textVars, probeVars, retryVars, inFlight>>

\* the timeouts callers pass: half a minute, and the default
TimeoutsMs == {30000, 300000}

cleanupTimeoutStreams(timeoutMs) ==
  /\ \E o \in {cleanupTimeoutStreamsOutcome(activeStreams, streamStats,
                                            timeoutMs, now)} :
       /\ activeStreams' = o.activeStreams
       /\ streamStats' = o.streamStats
  /\ UNCHANGED <<keyVars, now, dispatchVars, rotationVars, swrrVars, textVars, probeVars, retryVars, streamBodies, inFlight>>

Reads == Chunks \cup {"done", "error"}

NextStream ==
  \/ \E selectedKey \in ApiKeys \ {"x"} : createStreamResponse(selectedKey)
  \/ \E streamId \in 1..MaxStreams, read \in Reads : pull(streamId, read)
  \/ \E streamId \in 1..MaxStreams : consume(streamId)
  \/ \E streamId \in 1..MaxStreams : cancel(streamId)
  \/ \E timeoutMs \in TimeoutsMs : cleanupTimeoutStreams(timeoutMs)
  \/ Tick

SpecStream == InitForced /\ [][NextStream]_vars

\* ================================================ dispatcher: handleRequest
\* process.env.AUTH_TOKEN
serverAuthToken == "secret"
\* process.env.GEMINI_API_KEY: "a:1,b:1", or not set
ServerApiKeys == { <<E("a", "int", 1), E("b", "int", 1)>>, <<>> }

LAST_KEY_TTL_MS == 60000

\* the header and token texts of the model, split on ',' and ':' as
\* _parseKeys splits them
keysStringOf(text) ==
  CASE text = "" -> <<>>
    [] text = "," -> <<E("", "none", 0), E("", "none", 0)>>
    [] text = "c:2,d" -> <<E("c", "int", 2), E("d", "none", 0)>>
    [] OTHER -> <<E(text, "none", 0)>>

\* process.env.GEMINI_API_VERSION || "v1beta"
apiVersion == "v1beta"

\* the pathnames of the model, as their segments
NativePath == <<"v1beta", "models", "gemini-pro:generateContent">>
NativeModelsPath == <<"v1beta", "models">>
ChatPath == <<"v1", "chat", "completions">>
ModelsPath == <<"v1", "models">>

\* pathname.endsWith("/" + the segments of suffix joined by "/")
endsWith(pathname, suffix) ==
  /\ Len(pathname) >= Len(suffix)
  /\ SubSeq(pathname, Len(pathname) - Len(suffix) + 1, Len(pathname)) = suffix

isOpenAIRequest(pathname) ==
  \/ endsWith(pathname, <<"chat", "completions">>)
  \/ endsWith(pathname, <<"embeddings">>)

isOpenAIModelList(pathname) ==
  \/ endsWith(pathname, <<apiVersion, "openai", "models">>)
  \/ endsWith(pathname, <<"openai", "models">>)
  \/ endsWith(pathname, <<"v1", "models">>)
  \/ endsWith(pathname, <<"models">>)

isNativeModelList(pathname) == endsWith(pathname, <<apiVersion, "models">>)

\* the pathname of the outbound request
targetUrl(pathname) ==
  IF isOpenAIRequest(pathname) THEN pathname
  ELSE IF isOpenAIModelList(pathname) THEN <<apiVersion, "openai", "models">>
  ELSE IF isNativeModelList(pathname) THEN <<apiVersion, "models">>
  ELSE pathname

Requests ==
  { R(<<>>, NULL, NativePath, FALSE),
    R(<<>>, ",", NativePath, FALSE),
    R(<<>>, serverAuthToken, NativePath, FALSE),
    R(<<>>, serverAuthToken, NativePath, TRUE),
    R(<<>>, serverAuthToken, NativeModelsPath, FALSE),
    R(<<"Bearer", serverAuthToken>>, NULL, ChatPath, FALSE),
    R(<<"Bearer", "c:2,d">>, NULL, ChatPath, FALSE),
    R(<<"Bearer", "c">>, "c", ChatPath, FALSE),
    R(<<"Bearer", "c">>, "c", NativePath, FALSE) }

\* what the upstream does with a forwarded request
Upstreams ==
  {Resp(200), Resp(401), Resp(503), NetworkError, AbortError}

\* JavaScript truthiness of a string or null
Truthy(x) == x # NULL /\ x # ""

\* authHeader?.split(" ")[1]
secondWord(authHeader) == IF Len(authHeader) >= 2 THEN authHeader[2] ELSE NULL

\* KeyManager.createEphemeral(keysString, logger), with the state its first
\* selectKey() initialises
createEphemeral(keysString, t) ==
  [ks |-> _parseKeys(keysStringOf(keysString)),
   q |-> [pq |-> NoQueues, pl |-> <<>>, pi |-> 0, qi |-> 0, last |-> NULL],
   total |-> 0,
   last |-> t]

\* PerformanceOptimizer.optimizeKeySelection(keys): nothing ever writes
\* keyCache, so every key has the default status {healthy: true, weight: 1,
\* lastUsed: 0}, the filter keeps all and the (stable) sort moves none
optimizeKeySelection(ks) == IF Len(ks) = 0 THEN NULL ELSE ks[1].key

\* openai.fetch(req): an upstream status is passed on, an exception of the
\* upstream fetch leaves as a rejection
openaiFetch(upstream) ==
  IF upstream.kind = "response" THEN upstream ELSE NetworkError

\* PerformanceOptimizer.optimizeRequest(request, handler) that calls the
\* handler again after a 503
optimizeRequest_Retry(cached, upstream) ==
  IF cached THEN [fetches |-> 0, response |-> Resp(200)]
  ELSE [fetches |-> IF upstream = Resp(503) THEN 2 ELSE 1,
        response |-> upstream]

\* PerformanceOptimizer.optimizeRequest(request, handler): a cached response
\* is returned without calling the handler; otherwise the handler runs once
optimizeRequest(cached, upstream) ==
  IF cached THEN [fetches |-> 0, response |-> Resp(200)]
  ELSE [fetches |-> 1, response |-> upstream]

\* the auth headers of newHeaders after their placement, and the pathname
\* the request is sent to
setAuthHeaders(request, selectedKey) ==
  IF isOpenAIRequest(request.pathname) \/ isOpenAIModelList(request.pathname)
  THEN [Authorization |-> <<"Bearer", selectedKey>>, xGoogApiKey |-> NULL,
        url |-> targetUrl(request.pathname)]
  ELSE [Authorization |-> <<>>, xGoogApiKey |-> selectedKey,
        url |-> targetUrl(request.pathname)]

\* cache key of a request: pathname and query; responses to alt=sse
\* requests are event streams, which are not cached
cacheable(request, response) == ok(response) /\ ~request.isStream
\* url.pathname of the request passed to optimizeRequest
cacheKeyOf(request) ==
  IF isOpenAIRequest(request.pathname) THEN request.pathname
  ELSE targetUrl(request.pathname)
cached(request, cch) == ~request.isStream /\ cacheKeyOf(request) \in cch

\* the key of the client's own pool: createEphemeral(clientTokenStr).selectKey()
\* (NULL when the operator pool is to be used)
clientKey(request, usingServerKeys, t) ==
  LET clientApiKey_OpenAI == secondWord(request.Authorization)
      clientApiKey_Gemini == request.xGoogApiKey
      clientTokenStr ==
        IF Truthy(clientApiKey_OpenAI) THEN clientApiKey_OpenAI
        ELSE IF Truthy(clientApiKey_Gemini) THEN clientApiKey_Gemini
        ELSE ""
  IN IF usingServerKeys THEN NULL
     ELSE selectKeyOutcome(createEphemeral(clientTokenStr, t), t).ret

\* if (!selectedKey) { ... }: the last successful key, else the optimizer's
\* choice, else keyManager.selectKey()
operatorKey(usingServerKeys, preferReuse, st0, lsk, lkt, t) ==
  LET reuseIndex == Find(st0.ks, lsk)
      isHealthy == IF reuseIndex = 0 THEN TRUE ELSE st0.ks[reuseIndex].healthy
      reused ==
        IF /\ usingServerKeys
           /\ Truthy(lsk)
           /\ t - lkt <= LAST_KEY_TTL_MS
           /\ preferReuse
           /\ isHealthy
        THEN lsk ELSE NULL
      optimized == optimizeKeySelection(st0.ks)
      chosen(selectedKey, st, selectKeyReturned) ==
        [usingServerKeys |-> usingServerKeys, selectedKey |-> selectedKey,
         fromOperatorPool |-> Truthy(selectedKey), st |-> st,
         selectKeyReturned |-> selectKeyReturned]
  IN IF Truthy(reused) THEN chosen(reused, st0, <<>>)
     ELSE IF Truthy(optimized) THEN chosen(optimized, st0, <<>>)
     ELSE CHOOSE c \in {chosen(sel.ret, sel.st, <<sel.ret>>) :
                         sel \in {selectKeyOutcome(st0, t)}} : TRUE

\* credential resolution and key choice: [usingServerKeys, selectedKey,
\* fromOperatorPool, st, selectKeyReturned], st the operator KeyManager's
\* state afterwards and selectKeyReturned what its selectKey() calls returned
resolveKey(request, preferReuse, st0, lsk, lkt, t) ==
  LET usingServerKeys ==
        /\ Truthy(serverAuthToken)
        /\ \/ secondWord(request.Authorization) = serverAuthToken
           \/ request.xGoogApiKey = serverAuthToken
  IN CHOOSE c \in
       { IF Truthy(clientSelected)
         THEN [usingServerKeys |-> usingServerKeys,
               selectedKey |-> clientSelected,
               fromOperatorPool |-> FALSE, st |-> st0,
               selectKeyReturned |-> <<>>]
         ELSE operatorKey(usingServerKeys, preferReuse, st0, lsk, lkt, t) :
         clientSelected \in {clientKey(request, usingServerKeys, t)} } : TRUE

\* [st, lastSuccessfulKey, lastKeyTimestamp, cache, handled]: the operator
\* KeyManager's state, the module variables and the summary of the request
\* after handleRequest(request) at time t, when the key was resolved as c,
\* getCachedResponse(request) found a response or not (cachedResponse)
\* and the upstream answers as in upstream
relayFrom(request, upstream, c, lsk, lkt, cch, t, cachedResponse) ==
  LET selectedKey == c.selectedKey
      summary ==
        [request |-> request,
         upstream |-> NoUpstream,
         usingServerKeys |-> c.usingServerKeys,
         selectedKey |-> selectedKey,
         fromOperatorPool |-> c.fromOperatorPool,
         selectKeyReturned |-> c.selectKeyReturned,
         fetches |-> 0,
         outbound |-> [Authorization |-> <<>>, xGoogApiKey |-> NULL,
                       url |-> <<>>],
         reported |-> <<>>,
         status |-> 0,
         streamed |-> FALSE]
      handler == IF isOpenAIRequest(request.pathname)
                 THEN openaiFetch(upstream) ELSE upstream
      r == optimizeRequest(cachedResponse, handler)
      response == r.response
      sent == [summary EXCEPT !.outbound = setAuthHeaders(request, selectedKey),
                              !.fetches = r.fetches,
                              !.upstream = IF r.fetches = 0 THEN NoUpstream
                                           ELSE upstream]
      cch1 == IF cacheable(request, response)
              THEN cch \cup {cacheKeyOf(request)} ELSE cch
      success == ok(response) /\ response.status = 200
                   /\ c.usingServerKeys /\ Truthy(selectedKey)
      lsk1 == IF success THEN selectedKey ELSE lsk
      lkt1 == IF success THEN t ELSE lkt
      authFailure == response.kind = "response" /\ response.status \in {401, 403}
  IN IF ~Truthy(selectedKey)
     THEN \* "No available API keys."
          [st |-> c.st, lastSuccessfulKey |-> lsk, lastKeyTimestamp |-> lkt,
           cache |-> cch, handled |-> [summary EXCEPT !.status = 500]]
     ELSE IF response.kind # "response"
     THEN \* the OpenAI branch has no try: handleRequest rejects (status 0);
          \* the Gemini branch answers 499 to an abort and 500 otherwise
          [st |-> c.st, lastSuccessfulKey |-> lsk, lastKeyTimestamp |-> lkt,
           cache |-> cch,
           handled |-> [sent EXCEPT !.status =
                          IF isOpenAIRequest(request.pathname) THEN 0
                          ELSE IF response.kind = "AbortError" THEN 499
                          ELSE 500]]
     ELSE IF isOpenAIRequest(request.pathname)
     THEN [st |-> c.st, lastSuccessfulKey |-> lsk1, lastKeyTimestamp |-> lkt1,
           cache |-> cch1, handled |-> [sent EXCEPT !.status = response.status]]
     ELSE IF authFailure
     THEN [st |-> [c.st EXCEPT !.ks =
                     handleKeyErrorOutcome(c.st.ks, selectedKey,
                                           response.status, t)],
           lastSuccessfulKey |-> lsk1, lastKeyTimestamp |-> lkt1,
           cache |-> cch1,
           handled |-> [sent EXCEPT !.status = response.status,
                                    !.reported =
                                      <<[key |-> selectedKey,
                                         code |-> response.status]>>]]
     ELSE \* if (isStream && response.ok) return
          \*   streamHandler.createStreamResponse(response, selectedKey)
          [st |-> c.st, lastSuccessfulKey |-> lsk1, lastKeyTimestamp |-> lkt1,
           cache |-> cch1,
           handled |-> [sent EXCEPT !.status = response.status,
                                    !.streamed = request.isStream /\ ok(response)]]

relay(request, upstream, c, lsk, lkt, cch, t) ==
  relayFrom(request, upstream, c, lsk, lkt, cch, t, cached(request, cch))

\* handleRequest(request) at time t, when the upstream answers as in
\* upstream and Math.random() < REUSE_PROBABILITY is preferReuse
handleRequestOutcome(request, upstream, preferReuse, st0, lsk, lkt, cch, t) ==
  CHOOSE o \in {relay(request, upstream, c, lsk, lkt, cch, t) :
                 c \in {resolveKey(request, preferReuse, st0, lsk, lkt, t)}} :
    TRUE

handleRequest(request, upstream, preferReuse) ==
  \E o \in {handleRequestOutcome(request, upstream, preferReuse, State,
                                 lastSuccessfulKey, lastKeyTimestamp, cache,
                                 now)} :
     /\ \A i \in DOMAIN o.st.ks : o.st.ks[i].errorCount <= MaxErrorCount
     /\ SetState(o.st)
     /\ lastSuccessfulKey' = o.lastSuccessfulKey
     /\ lastKeyTimestamp' = o.lastKeyTimestamp
     /\ cache' = o.cache
     /\ handled' = o.handled
     /\ history' = <<>>
     /\ IF o.handled.streamed
        THEN /\ streamStats.totalStreams < MaxStreams
             /\ \E str \in {createStreamResponseOutcome(
                                activeStreams, streamStats, streamBodies,
                                o.handled.selectedKey, now)} :
                  /\ activeStreams' = str.activeStreams
                  /\ streamStats' = str.streamStats
                  /\ streamBodies' = str.streamBodies
        ELSE UNCHANGED streamVars
     /\ UNCHANGED <<now, retryVars, cacheVars, rotationVars, swrrVars, textVars, probeVars, inFlight>>

\* --------------------------------------------------- concurrent requests
\* new PerformanceOptimizer({ ..., maxConcurrentRequests: 20, ... })
maxConcurrentRequests == 20

\* this.activeRequests.size
activeRequestsSize == BagCardinality(inFlight)

\* what handleRequest keeps of a request across the await
pending(request, c) ==
  [request |-> request, usingServerKeys |-> c.usingServerKeys,
   selectedKey |-> c.selectedKey, fromOperatorPool |-> c.fromOperatorPool,
   selectKeyReturned |-> c.selectKeyReturned]

\* the summary of a request for which optimizeRequest throws
\* its concurrency-limit Error before the handler is called: the Gemini branch
\* rethrows it to the outer catch, which answers 500; the OpenAI branch has
\* no try, and handleRequest rejects (status 0)
refused(request, c) ==
  [NoRequest EXCEPT !.request = request,
                    !.usingServerKeys = c.usingServerKeys,
                    !.selectedKey = c.selectedKey,
                    !.fromOperatorPool = c.fromOperatorPool,
                    !.selectKeyReturned = c.selectKeyReturned,
                    !.outbound = setAuthHeaders(request, c.selectedKey),
                    !.status = IF isOpenAIRequest(request.pathname) THEN 0
                               ELSE 500]

\* handleRequest(request) up to the await of the handler in optimizeRequest,
\* or to its return when no handler is awaited: no key, the limit reached,
\* or a cached response
handleRequestBegin(request, preferReuse) ==
  \E c \in {resolveKey(request, preferReuse, State, lastSuccessfulKey,
                       lastKeyTimestamp, now)} :
     /\ IF \/ ~Truthy(c.selectedKey)
           \/ activeRequestsSize < maxConcurrentRequests /\ cached(request, cache)
        THEN \E o \in {relay(request, NoUpstream, c, lastSuccessfulKey,
                             lastKeyTimestamp, cache, now)} :
               /\ SetState(o.st)
               /\ lastSuccessfulKey' = o.lastSuccessfulKey
               /\ lastKeyTimestamp' = o.lastKeyTimestamp
               /\ cache' = o.cache
               /\ handled' = o.handled
               /\ inFlight' = inFlight
        ELSE IF activeRequestsSize >= maxConcurrentRequests
        THEN /\ SetState(c.st)
             /\ handled' = refused(request, c)
             /\ UNCHANGED <<lastSuccessfulKey, lastKeyTimestamp, cache, inFlight>>
        ELSE /\ SetState(c.st)
             /\ inFlight' = inFlight (+) SetToBag({pending(request, c)})
             /\ UNCHANGED <<lastSuccessfulKey, lastKeyTimestamp, cache, handled>>
     /\ history' = <<>>
     /\ UNCHANGED <<now, retryVars, cacheVars, rotationVars, swrrVars, textVars,
                    probeVars, streamVars>>

\* the handler awaited for p settles as in upstream: the rest of
\* optimizeRequest (its finally deletes the id) and of handleRequest
handleRequestEnd(p, upstream) ==
  /\ BagIn(p, inFlight)
  /\ \E o \in {relayFrom(p.request, upstream,
                          [usingServerKeys |-> p.usingServerKeys,
                           selectedKey |-> p.selectedKey,
                           fromOperatorPool |-> p.fromOperatorPool,
                           selectKeyReturned |-> p.selectKeyReturned,
                           st |-> State],
                          lastSuccessfulKey, lastKeyTimestamp, cache, now,
                          FALSE)} :
       /\ \A i \in DOMAIN o.st.ks : o.st.ks[i].errorCount <= MaxErrorCount
       /\ SetState(o.st)
       /\ lastSuccessfulKey' = o.lastSuccessfulKey
       /\ lastKeyTimestamp' = o.lastKeyTimestamp
       /\ cache' = o.cache
       /\ handled' = o.handled
  /\ inFlight' = inFlight (-) SetToBag({p})
  /\ history' = <<>>
  /\ UNCHANGED <<now, retryVars, cacheVars, rotationVars, swrrVars, textVars,
                 probeVars, streamVars>>

\* requests of the two dialects with the operator's token
ConcurrentRequests ==
  { R(<<>>, serverAuthToken, NativePath, FALSE),
    R(<<"Bearer", serverAuthToken>>, NULL, ChatPath, FALSE) }

ConcurrentUpstreams == {Resp(200), Resp(401), NetworkError}

InitConcurrent ==
  /\ initState(<<E("a", "int", 1), E("b", "int", 1)>>)
  /\ now = 0
  /\ history = <<>>
  /\ initRotation
  /\ initSwrr
  /\ initText
  /\ initDispatcher
  /\ initRetry
  /\ initStreams
  /\ initProbes

NextConcurrent ==
  \/ \E request \in ConcurrentRequests, preferReuse \in BOOLEAN :
       handleRequestBegin(request, preferReuse)
  \/ \E p \in BagToSet(inFlight), upstream \in ConcurrentUpstreams :
       handleRequestEnd(p, upstream)

SpecConcurrent == InitConcurrent /\ [][NextConcurrent]_vars

InitDispatch ==
  /\ \E keysString \in ServerApiKeys : initState(keysString)
  /\ now = 0
  /\ history = <<>>
  /\ initRotation
  /\ initSwrr
  /\ initText
  /\ initDispatcher
  /\ initRetry
  /\ initStreams
  /\ initProbes

NextDispatch ==
  \/ \E request \in Requests, upstream \in Upstreams, preferReuse \in BOOLEAN :
       handleRequest(request, upstream, preferReuse)
  \/ Tick

SpecDispatch == InitDispatch /\ [][NextDispatch]_vars

\* ================================================ utils.js: KeyManager
\* _attemptWeightRecovery() at time t
utils_attemptWeightRecovery(ks, t) ==
  [i \in DOMAIN ks |->
     LET key == ks[i]
         recoveryAmount == (key.originalWeight * recoveryRateTenths) \div 10
         dynamicWeight == Min(key.dynamicWeight + recoveryAmount,
                              key.originalWeight)
     IN IF /\ key.dynamicWeight < key.originalWeight
           /\ t - key.lastRecoveryAttempt >= recoveryInterval
           /\ key.recoveryAttempts < maxRecoveryAttempts
        THEN [key EXCEPT
                !.dynamicWeight = dynamicWeight,
                !.lastRecoveryAttempt = t,
                !.recoveryAttempts = @ + 1,
                !.healthy = IF dynamicWeight * 10 >=
                                 key.originalWeight * healthThresholdTenths
                            THEN TRUE ELSE @]
        ELSE key]

\* _resetAllKeys() at time t
utils_resetAllKeys(st, t) ==
  [st EXCEPT
     !.keys = [i \in DOMAIN st.keys |->
                 [st.keys[i] EXCEPT !.healthy = TRUE,
                                    !.dynamicWeight = st.keys[i].originalWeight,
                                    !.currentWeight = 0,
                                    !.errorCount = 0,
                                    !.recoveryAttempts = 0,
                                    !.lastRecoveryAttempt = t]],
     !.totalResetCount = @ + 1,
     !.lastGlobalReset = t]

RECURSIVE SumWeights(_, _)
\* keys.reduce((sum, k) => sum + k.dynamicWeight, 0), sel the indexes of keys
SumWeights(ks, sel) ==
  IF sel = <<>> THEN 0
  ELSE ks[Head(sel)].dynamicWeight + SumWeights(ks, Tail(sel))

\* the first record of sel with the largest currentWeight
FirstLargest(ks, sel) ==
  CHOOSE n \in DOMAIN sel :
     /\ \A m \in DOMAIN sel : ks[sel[m]].currentWeight <= ks[sel[n]].currentWeight
     /\ \A m \in DOMAIN sel : m < n =>
          ks[sel[m]].currentWeight < ks[sel[n]].currentWeight

\* _selectFromAvailable(keys) that leaves the selected record's
\* currentWeight as it is
utils_selectFromAvailable_NoSubtract(ks, sel) ==
  LET raised == [i \in DOMAIN ks |->
                   IF i \in Range(sel)
                   THEN [ks[i] EXCEPT !.currentWeight = @ + ks[i].dynamicWeight]
                   ELSE ks[i]]
  IN IF Len(sel) = 0 THEN [ks |-> ks, ret |-> NULL]
     ELSE [ks |-> raised, ret |-> ks[sel[FirstLargest(raised, sel)]].key]

\* _selectFromAvailable(keys), sel the indexes of keys: [ks, ret]
utils_selectFromAvailable(ks, sel) ==
  LET totalWeight == SumWeights(ks, sel)
      raised == [i \in DOMAIN ks |->
                   IF i \in Range(sel)
                   THEN [ks[i] EXCEPT !.currentWeight = @ + ks[i].dynamicWeight]
                   ELSE ks[i]]
      selected == sel[FirstLargest(raised, sel)]
  IN IF Len(sel) = 0 THEN [ks |-> ks, ret |-> NULL]
     ELSE IF totalWeight <= 0 THEN [ks |-> ks, ret |-> ks[sel[1]].key]
     ELSE [ks |-> [raised EXCEPT ![selected].currentWeight = @ - totalWeight],
           ret |-> ks[selected].key]

\* selectKey() at time t: [st, ret, index]
utils_selectKeyOutcome(st0, t) ==
  LET ks == utils_attemptWeightRecovery(st0.keys, t)
      st == [st0 EXCEPT !.keys = ks]
      avail(i) == ks[i].healthy \/ ks[i].dynamicWeight >= minWeight
      available == SelectSeq(Indexes(ks), avail)
      isHealthy(i) == ks[i].healthy
      healthy == SelectSeq(available, isHealthy)
      rs == utils_resetAllKeys(st, t)
      r == IF Len(available) = 0
           THEN utils_selectFromAvailable(rs.keys, Indexes(rs.keys))
           ELSE IF Len(healthy) > 0
           THEN utils_selectFromAvailable(ks, healthy)
           ELSE utils_selectFromAvailable(ks, available)
  IN [st |-> [(IF Len(available) = 0 THEN rs ELSE st) EXCEPT !.keys = r.ks],
      ret |-> r.ret]

\* sum(w_i): the length of a block
BlockLength(ks) == SumWeights(ks, Indexes(ks)) \div Scale

\* selectKey() of utils.js, its return value counted in the current block
utils_selectKey ==
  \E o \in {utils_selectKeyOutcome(swrrState, now)} :
     LET full == swrrRun.calls = BlockLength(swrrState.keys)
         calls == IF full THEN 0 ELSE swrrRun.calls
         blocks == IF full THEN swrrRun.blocks + 1 ELSE swrrRun.blocks
     IN /\ blocks < MaxBlocks
        /\ swrrState' = o.st
        /\ swrrRun' = [blocks |-> blocks, calls |-> calls + 1,
                       counts |-> [i \in DOMAIN swrrRun.counts |->
                                     (IF full THEN 0 ELSE swrrRun.counts[i])
                                     + (IF o.st.keys[i].key = o.ret
                                        THEN 1 ELSE 0)]]
        /\ UNCHANGED <<keyVars, now, dispatchVars, rotationVars, textVars, probeVars,
                       retryVars, streamVars, inFlight>>

\* pools with integer weights: "k1:5,k2:1,k3:1", "a:0,b:2", "a:2,b",
\* "a:3,b:2,c:2" and "k1:10,k2:5,k3:3"
SwrrKeysStrings ==
  { <<E("k1", "int", 5), E("k2", "int", 1), E("k3", "int", 1)>>,
    <<E("a", "int", 0), E("b", "int", 2)>>,
    <<E("a", "int", 2), E("b", "none", 0)>>,
    <<E("a", "int", 3), E("b", "int", 2), E("c", "int", 2)>>,
    <<E("k1", "int", 10), E("k2", "int", 5), E("k3", "int", 3)>> }

InitSwrr ==
  /\ initState(<<E("a", "int", 1), E("b", "int", 1)>>)
  /\ now = 0
  /\ history = <<>>
  /\ initRotation
  /\ \E keysString \in SwrrKeysStrings : utils_initState(keysString)
  /\ initText
  /\ initDispatcher
  /\ initRetry
  /\ initStreams
  /\ initProbes

NextSwrr ==
  \/ utils_selectKey
  \/ Tick

SpecSwrr == InitSwrr /\ [][NextSwrr]_vars

\* ================================================ _parseKeys on text
\* the characters of keys strings
Alphabet == {"k", "x", "2", "-", " ", ":", ","}

\* the strings of at most n characters
RECURSIVE TextsUpTo(_)
TextsUpTo(n) ==
  IF n = 0 THEN {<<>>}
  ELSE LET shorter == TextsUpTo(n - 1)
       IN shorter \cup {Append(t, c) : t \in shorter, c \in Alphabet}

RECURSIVE split(_, _)
\* String.prototype.split(separator), the separator one character
split(text, separator) ==
  LET hits == {i \in DOMAIN text : text[i] = separator}
      first == CHOOSE i \in hits : \A j \in hits : i <= j
  IN IF hits = {} THEN <<text>>
     ELSE <<SubSeq(text, 1, first - 1)>>
            \o split(SubSeq(text, first + 1, Len(text)), separator)

\* String.prototype.trim()
trim(text) ==
  LET inked == {i \in DOMAIN text : text[i] # " "}
      lo == CHOOSE i \in inked : \A j \in inked : i <= j
      hi == CHOOSE i \in inked : \A j \in inked : j <= i
  IN IF inked = {} THEN <<>> ELSE SubSeq(text, lo, hi)

RECURSIVE digitsValue(_, _)
\* the value of the digits text starts with, after acc; the digit is "2"
digitsValue(text, acc) ==
  IF text = <<>> \/ Head(text) # "2" THEN acc
  ELSE digitsValue(Tail(text), 10 * acc + 2)

\* trimStart
trimStart(text) ==
  LET inked == {i \in DOMAIN text : text[i] # " "}
      lo == CHOOSE i \in inked : \A j \in inked : i <= j
  IN IF inked = {} THEN <<>> ELSE SubSeq(text, lo, Len(text))

\* parseInt(text, 10): [nan, value].  Leading white space is skipped, a
\* sign is read, then the digits up to the first other character.
parseInt(text) ==
  LET t == trimStart(text)
      negative == t # <<>> /\ Head(t) = "-"
      digits == IF negative THEN Tail(t) ELSE t
  IN IF digits = <<>> \/ Head(digits) # "2" THEN [nan |-> TRUE, value |-> 0]
     ELSE [nan |-> FALSE,
           value |-> IF negative THEN 0 - digitsValue(digits, 0)
                     ELSE digitsValue(digits, 0)]

\* the record _parseKeys makes of a key and a weight
keyRecord(key, normalizedWeight) ==
  [key |-> key,
   originalWeight |-> normalizedWeight * Scale,
   dynamicWeight |-> normalizedWeight * Scale,
   healthy |-> TRUE,
   errorCount |-> 0,
   recoveryAttempts |-> 0,
   lastErrorCode |-> 0,
   lastRecoveryAttempt |-> 0,
   temporaryUnhealthy |-> FALSE,
   temporaryUnhealthyUntil |-> 0]

\* _parseKeys that does not trim the key
_parseKeysText_NoTrim(keysString) ==
  LET parse(item) ==
        LET parts == split(trim(item), ":")
            weight == IF Len(parts) > 1 THEN parseInt(parts[2])
                      ELSE [nan |-> FALSE, value |-> 1]
        IN keyRecord(parts[1], IF weight.nan THEN 1 ELSE weight.value)
      items == split(keysString, ",")
      nonBlank(k) == Len(k.key) > 0
  IN IF keysString = <<>> THEN <<>>
     ELSE SelectSeq([i \in DOMAIN items |-> parse(items[i])], nonBlank)

\* _parseKeys(keysString), the string given by its characters
_parseKeysText(keysString) ==
  LET parse(item) ==
        LET parts == split(trim(item), ":")
            key == trim(parts[1])
            weight == IF Len(parts) > 1 THEN parseInt(parts[2])
                      ELSE [nan |-> FALSE, value |-> 1]
            normalizedWeight == IF weight.nan THEN 1 ELSE weight.value
        IN keyRecord(key, normalizedWeight)
      items == split(keysString, ",")
      nonBlank(k) == Len(k.key) > 0
  IN IF keysString = <<>> THEN <<>>
     ELSE SelectSeq([i \in DOMAIN items |-> parse(items[i])], nonBlank)

\* LOG_LEVELS
LOG_LEVELS(level) ==
  CASE level = "ERROR" -> 0
    [] level = "WARN" -> 1
    [] level = "INFO" -> 2
    [] level = "DEBUG" -> 3

\* logger.error / warn / info / debug: the entry is written when LOG_LEVEL
\* admits its level
write(lg, level, text) ==
  IF LOG_LEVELS(lg.LOG_LEVEL) >= LOG_LEVELS(level)
  THEN [lg EXCEPT !.entries = @ \cup {[level |-> level, text |-> text]}]
  ELSE lg

RECURSIVE writeAll(_, _)
writeAll(lg, entries) ==
  IF entries = <<>> THEN lg
  ELSE writeAll(write(lg, Head(entries).level, Head(entries).text), Tail(entries))

\* new KeyManager(keysString): this.initialKeys = this._parseKeys(keysString),
\* this.state = null, and the debug entry that quotes keysString
constructor ==
  /\ ~parseRun.done
  /\ parseRun' = [parseRun EXCEPT
                    !.initialKeys = _parseKeysText(parseRun.keysString),
                    !.done = TRUE]
  /\ logged' = write(logged, "DEBUG",
                     <<"KeyManager created for keys: \"">>
                       \o parseRun.keysString \o <<"\"">>)
  /\ UNCHANGED <<keyVars, now, dispatchVars, rotationVars, swrrVars, retryVars,
                 streamVars, probeVars, inFlight>>

InitText ==
  /\ initState(<<E("a", "int", 1), E("b", "int", 1)>>)
  /\ now = 0
  /\ history = <<>>
  /\ initRotation
  /\ initSwrr
  /\ \E keysString \in TextsUpTo(MaxLen) : parseRun = NoParseRun(keysString)
  /\ logged = NothingLogged("INFO")
  /\ initDispatcher
  /\ initRetry
  /\ initStreams
  /\ initProbes

NextText == constructor

SpecText == InitText /\ [][NextText]_vars

\* ============================================================ log entries
\* String.prototype.slice(-4)
slice4(text) == SubSeq(text, Max(1, Len(text) - 3), Len(text))

\* Number.prototype.toFixed(2) of a weight
toFixed2(weight) ==
  LET hundredths == MathRound(weight * 100, Scale)
  IN <<ToString(hundredths \div 100), ".",
       ToString((hundredths \div 10) % 10), ToString(hundredths % 10)>>

\* redactHeaders on the value of one sensitive header
redactHeaders(v) ==
  IF Len(v) <= 8 THEN <<"***">>
  ELSE SubSeq(v, 1, 4) \o <<"...REDACTED...">> \o slice4(v)

\* the entries handleKeyError and _updateKeyHealthStatus write, in order
handleKeyErrorEntries(ks, apiKey, errorCode, t) ==
  LET i == Find(ks, apiKey)
      after == handleKeyErrorOutcome(ks, apiKey, errorCode, t)[i]
      adjusted == [level |-> "INFO",
                   text |-> <<"key ...">> \o slice4(apiKey)
                              \o <<" error ", ToString(errorCode), ", weight from ">>
                              \o toFixed2(ks[i].dynamicWeight)
                              \o <<" to ">> \o toFixed2(after.dynamicWeight)]
      marked(why) == [level |-> "WARN",
                      text |-> <<"key ...">> \o slice4(ks[i].key) \o <<why>>]
      health == IF errorCode = 401 \/ errorCode = 403
                THEN <<marked(" unhealthy: auth")>>
                ELSE IF errorCode = 503
                THEN <<marked(" temporarily unhealthy: 503")>>
                ELSE IF after.dynamicWeight <= minWeight
                THEN <<marked(" unhealthy: weight too low")>>
                ELSE <<>>
      change == IF ks[i].healthy /\ ~after.healthy
                THEN <<[level |-> "INFO",
                        text |-> <<"key ...">> \o slice4(ks[i].key)
                                   \o <<" healthy -> unhealthy">>]>>
                ELSE <<>>
  IN IF i = 0
     THEN <<[level |-> "WARN",
             text |-> <<"update of a key that does not exist: ">>
                        \o slice4(apiKey)]>>
     ELSE <<adjusted>> \o health \o change

\* the keys of the instance: state.keys once initState has run
instanceKeys == IF parseRun.hasState THEN parseRun.keys ELSE parseRun.initialKeys

\* the keys callers name: those of the instance and one that is not in it
ApiKeyTexts == {parseRun.initialKeys[i].key : i \in DOMAIN parseRun.initialKeys}
                 \cup {<<"x", "x">>}

\* handleKeyError(apiKey, errorCode) on the instance made by constructor,
\* with the entries it writes
handleKeyErrorLogged(apiKey, errorCode) ==
  /\ parseRun.done
  /\ Find(instanceKeys, apiKey) # 0 =>
       instanceKeys[Find(instanceKeys, apiKey)].errorCount < MaxErrorCount
  /\ parseRun' = [parseRun EXCEPT
                    !.hasState = TRUE,
                    !.keys = handleKeyErrorOutcome(instanceKeys, apiKey,
                                                   errorCode, now)]
  /\ logged' = writeAll(logged,
                        handleKeyErrorEntries(instanceKeys, apiKey, errorCode, now))
  /\ UNCHANGED <<keyVars, now, dispatchVars, rotationVars, swrrVars, retryVars,
                 streamVars, probeVars, inFlight>>

\* the dispatcher's entry for an upstream answer that is not ok: the key's
\* last four characters and the redacted x-goog-api-key header
warnApiCallFailed(selectedKey, status) ==
  /\ parseRun.done
  /\ logged' = write(logged, "WARN",
                     <<"API call failed with status ", ToString(status),
                       " for key ...">> \o slice4(selectedKey)
                       \o <<" x-goog-api-key: ">> \o redactHeaders(selectedKey))
  /\ UNCHANGED <<keyVars, now, dispatchVars, rotationVars, swrrVars, parseRun,
                 retryVars, streamVars, probeVars, inFlight>>

\* the keys strings of the logged instances: credentials of 2, 4, 5 and 9
\* characters
LogKeysStrings ==
  {<<"k", "x">>,
   <<"k", "x", "k", "x", ",", "x", "k", "x", "k", "x", ":", "2">>,
   <<"k", "x", "k", "x", "k", "x", "k", "x", "k">>}

InitLog ==
  /\ initState(<<E("a", "int", 1), E("b", "int", 1)>>)
  /\ now = 0
  /\ history = <<>>
  /\ initRotation
  /\ initSwrr
  /\ \E keysString \in LogKeysStrings : parseRun = NoParseRun(keysString)
  /\ \E level \in {"INFO", "DEBUG"} : logged = NothingLogged(level)
  /\ initDispatcher
  /\ initRetry
  /\ initStreams
  /\ initProbes

NextLog ==
  \/ constructor
  \/ \E apiKey \in ApiKeyTexts, errorCode \in ErrorCodes :
       handleKeyErrorLogged(apiKey, errorCode)
  \/ \E selectedKey \in ApiKeyTexts \ {<<"x", "x">>}, status \in {401, 503} :
       warnApiCallFailed(selectedKey, status)

SpecLog == InitLog /\ [][NextLog]_vars

\* ======================================================== APIResponseCache
\* ttl of performanceOptimizer.cache
cacheTtl == 300000

\* the requests passed to optimizeRequest: method, pathname and query of
\* request.url, body, and the key in the auth header
CacheRequests ==
  [method : {"GET", "POST"}, pathname : {NativePath}, query : {"", "alt=sse"},
   body : {"b1", "b2"}, apiKey : {"a", "c"}]

\* the upstream's answers to a request r: the body answers r
UpstreamAnswers(r) ==
  { [status |-> 200, contentType |-> "application/json", body |-> r],
    [status |-> 200, contentType |-> "text/event-stream", body |-> r],
    [status |-> 503, contentType |-> "application/json", body |-> r] }

\* generateCacheKey(key, params): `${key}?${sortedParams}`, or key
generateCacheKey(key, params) == <<key, params>>

\* CacheManager.get(key) at time t gives a value, not null
cacheHit(items, key, t) ==
  key \in DOMAIN items /\ ~(t > items[key].expiresAt)

\* CacheManager.get(key) when it gives a value
cacheGet(items, key) == items[key].value

\* CacheManager.get deletes an item it finds expired
cacheAfterGet(items, key, t) ==
  IF key \in DOMAIN items /\ t > items[key].expiresAt
  THEN [k \in DOMAIN items \ {key} |-> items[k]]
  ELSE items

\* CacheManager.set(key, value) at time t
cacheSet(items, key, value, t) ==
  [k \in DOMAIN items \cup {key} |->
     IF k = key THEN [value |-> value, expiresAt |-> t + cacheTtl]
     ELSE items[k]]

\* PerformanceOptimizer.getCachedResponse(request) is not null
hasCachedResponse(items, request, t) ==
  cacheHit(items, generateCacheKey(request.pathname, request.query), t)

\* PerformanceOptimizer.getCachedResponse(request) when it is not null
getCachedResponse(items, request) ==
  cacheGet(items, generateCacheKey(request.pathname, request.query))

\* PerformanceOptimizer.cacheResponse(request, response), called for ok
\* responses
cacheResponse(items, request, response, t) ==
  IF response.status < 200 \/ response.status > 299 THEN items
  ELSE IF response.contentType = "text/event-stream" THEN items
  ELSE cacheSet(items, generateCacheKey(request.pathname, request.query),
                [status |-> response.status,
                 contentType |-> response.contentType,
                 body |-> response.body], t)

\* performanceOptimizer.optimizeRequest(request, handler), the handler's
\* fetch answering as upstream
optimizeRequestCall(request, upstream) ==
  \E hit \in {hasCachedResponse(cacheValues, request, now)} :
    \E r \in {optimizeRequest(hit, upstream)} :
      /\ served' = [request |-> request, fetches |-> r.fetches,
                    fromCache |-> hit,
                    response |-> IF hit
                                 THEN getCachedResponse(cacheValues, request)
                                 ELSE upstream]
      /\ cacheValues' =
           IF hit THEN cacheValues
           ELSE cacheResponse(cacheAfterGet(cacheValues,
                                generateCacheKey(request.pathname, request.query),
                                now),
                              request, upstream, now)
      /\ cache' = {k[1] : k \in DOMAIN cacheValues'}
      /\ UNCHANGED <<keyVars, now, lastSuccessfulKey, lastKeyTimestamp,
                     handled, rotationVars, swrrVars, textVars, probeVars, retryVars, streamVars, inFlight>>

NextCache ==
  \/ \E request \in CacheRequests :
       \E upstream \in UpstreamAnswers(request) :
         optimizeRequestCall(request, upstream)
  \/ Tick

SpecCache == InitDispatch /\ [][NextCache]_vars

\* ======================================================== RetryHandler
\* KEY_MANAGER_CONFIG.retry; the configuration has no serviceUnavailable
\* entry, and no jitter or backoffMultiplier in retry
retryConfig == [maxAttempts |-> 3, baseDelay |-> 1000, maxDelay |-> 10000]

\* const config = errorCode === 503 ? this.config.serviceUnavailable
\*                                    : this.config.retry
\* is undefined for 503, and the next line reads a property of it: both
\* calculateDelay and shouldRetry throw a TypeError
throwsTypeError(errorCode) == errorCode = 503

RECURSIVE Pow2(_)
Pow2(n) == IF n = 0 THEN 1 ELSE 2 * Pow2(n - 1)

\* calculateDelay(attempt, errorCode) for errorCode # 503: the delay in ms
calculateDelay(att, errorCode) ==
  Max(0, Min(retryConfig.baseDelay * Pow2(att - 1), retryConfig.maxDelay))

\* shouldRetry(errorCode, attempt) for errorCode # 503
shouldRetry(errorCode, att) ==
  IF errorCode = 429 THEN att <= retryConfig.maxAttempts
  ELSE errorCode \in {500, 502, 504} /\ att <= retryConfig.maxAttempts

\* shouldRetry(errorCode, attempt) is called: "true", "false", or
\* "TypeError" when it raises
shouldRetryCall ==
  /\ retryCheck.result = "none"
  /\ retryCheck' = [retryCheck EXCEPT !.result =
                      IF throwsTypeError(retryCheck.errorCode) THEN "TypeError"
                      ELSE IF shouldRetry(retryCheck.errorCode, retryCheck.attempt)
                      THEN "true" ELSE "false"]
  /\ UNCHANGED <<keys, priorityQueues, priorityList, currentPriorityIndex,
                 currentQueueIndex, lastSelectedKey, totalResetCount,
                 lastGlobalReset, now, history, attempt, apiCalls,
                 retryOutcome, retryKey, retryOptions, handleKeyErrorCalls,
                 dispatchVars, rotationVars, swrrVars, textVars, probeVars, streamVars, inFlight>>

\* the status codes and attempt numbers shouldRetry is called with
StatusCodes == {200, 400, 401, 403, 404, 408, 429, 500, 501, 502, 503, 504}

InitShouldRetry ==
  /\ initState(<<E("a", "int", 1), E("b", "int", 1)>>)
  /\ now = 0
  /\ history = <<>>
  /\ initRotation
  /\ initSwrr
  /\ initText
  /\ initDispatcher
  /\ attempt = 0
  /\ apiCalls = <<>>
  /\ retryOutcome = "idle"
  /\ retryKey = NULL
  /\ retryOptions = [maxAttempts |-> 3, errorCode |-> 0]
  /\ handleKeyErrorCalls = 0
  /\ \E errorCode \in StatusCodes, att \in 1..MaxAttempt :
        retryCheck = [errorCode |-> errorCode, attempt |-> att, result |-> "none"]
  /\ initStreams
  /\ initProbes

NextShouldRetry == shouldRetryCall

SpecShouldRetry == InitShouldRetry /\ [][NextShouldRetry]_vars

\* what apiCall() does in the model: a response, or an exception
ApiCallResults ==
  {Resp(200), Resp(400), Resp(401), Resp(403), Resp(429), Resp(503),
   NetworkError}

\* the options callers pass: maxAttempts, and errorCode (0 for null)
RetryOptions ==
  [maxAttempts : {1, 2, 3}, errorCode : {0, 503}]

\* the catch block without attempt++
retryCatch_NoIncrement(att, options) ==
  LET errorCode == IF options.errorCode # 0 THEN options.errorCode ELSE 500
  IN IF att >= options.maxAttempts
     THEN [attempt |-> att, outcome |-> "thrown", slept |-> 0]
     ELSE IF throwsTypeError(errorCode)
     THEN [attempt |-> att, outcome |-> "thrown", slept |-> 0]
     ELSE [attempt |-> att, outcome |-> "running",
           slept |-> calculateDelay(att, errorCode)]

\* the catch block of the loop: [attempt, outcome, slept]
retryCatch(att, options) ==
  LET errorCode == IF options.errorCode # 0 THEN options.errorCode ELSE 500
  IN IF att >= options.maxAttempts
     THEN [attempt |-> att, outcome |-> "thrown", slept |-> 0]
     ELSE IF throwsTypeError(errorCode)
     THEN [attempt |-> att, outcome |-> "thrown", slept |-> 0]
     ELSE [attempt |-> att + 1, outcome |-> "running",
           slept |-> calculateDelay(att, errorCode)]

\* the try block of the loop after a response that is not ok and after
\* handleKeyError: [attempt, outcome, slept]
retryTry(att, options, statusCode) ==
  IF throwsTypeError(statusCode) THEN retryCatch(att, options)
  ELSE IF ~shouldRetry(statusCode, att) THEN retryCatch(att, options)
  ELSE IF statusCode \in {400, 401, 403} THEN retryCatch(att, options)
  ELSE [attempt |-> att + 1, outcome |-> "running",
        slept |-> IF att < options.maxAttempts
                  THEN calculateDelay(att, statusCode) ELSE 0]

\* one pass of the while loop, apiCall() giving result:
\* [ks, attempt, outcome, slept]
retryIteration(ks, selectedKey, att, options, result, t) ==
  LET reported == handleKeyErrorOutcome(ks, selectedKey, result.status, t)
      body == IF result.kind # "response" THEN retryCatch(att, options)
              ELSE IF ok(result)
              THEN [attempt |-> att, outcome |-> "returned", slept |-> 0]
              ELSE retryTry(att, options, result.status)
      \* while (attempt <= maxAttempts) ... throw lastError
      outcome == IF body.outcome = "running" /\ body.attempt > options.maxAttempts
                 THEN "thrown" ELSE body.outcome
  IN [ks |-> IF result.kind = "response" /\ ~ok(result) THEN reported ELSE ks,
      attempt |-> body.attempt, outcome |-> outcome, slept |-> body.slept]

\* executeWithRetry(apiCall, selectedKey, options) is called; the model
\* follows one execution
executeWithRetry(selectedKey, options) ==
  /\ retryOutcome = "idle"
  /\ attempt' = 1
  /\ apiCalls' = <<>>
  /\ retryOutcome' = "running"
  /\ retryKey' = selectedKey
  /\ retryOptions' = options
  /\ handleKeyErrorCalls' = 0
  /\ UNCHANGED <<keys, priorityQueues, priorityList, currentPriorityIndex,
                 currentQueueIndex, lastSelectedKey, totalResetCount,
                 lastGlobalReset, now, history, retryCheck, dispatchVars, rotationVars, swrrVars, textVars, probeVars, streamVars, inFlight>>

\* one pass of the loop of the running call: apiCall() settles with result
retryLoop(result) ==
  /\ retryOutcome = "running"
  /\ \E o \in {retryIteration(keys, retryKey, attempt, retryOptions, result, now)} :
       /\ \A i \in DOMAIN o.ks : o.ks[i].errorCount <= MaxErrorCount
       /\ now + o.slept <= MaxTicks * TimeUnit
       /\ keys' = o.ks
       /\ attempt' = o.attempt
       /\ retryOutcome' = o.outcome
       /\ now' = now + o.slept
  /\ apiCalls' = Append(apiCalls, result)
  /\ handleKeyErrorCalls' =
       IF result.kind = "response" /\ ~ok(result) THEN handleKeyErrorCalls + 1
       ELSE handleKeyErrorCalls
  /\ history' = <<>>
  /\ UNCHANGED <<priorityQueues, priorityList, currentPriorityIndex,
                 currentQueueIndex, lastSelectedKey, totalResetCount,
                 lastGlobalReset, retryKey, retryOptions, retryCheck, dispatchVars, rotationVars, swrrVars, textVars, probeVars,
                 streamVars, inFlight>>

NextRetry ==
  \/ \E selectedKey \in ApiKeys, options \in RetryOptions :
       executeWithRetry(selectedKey, options)
  \/ \E result \in ApiCallResults : retryLoop(result)
  \/ Tick

SpecRetry == Init /\ [][NextRetry]_vars

\* ======================================================== properties
\* history is non-empty exactly when no other method was called since the
\* last selectKey(): its last element is what that call returned, and the
\* records are as that call left them.
Returned == Len(history) > 0
LastReturned == history[Len(history)]
RecordOf(apiKey) == keys[Find(keys, apiKey)]

\* the records that sit in some priority queue
Queued == UNION {Range(priorityQueues[p]) : p \in DOMAIN priorityQueues}

\* C1: whenever a selectKey() call leaves at least one record healthy (its
\* recovery and expiry steps included), the credential it returned belongs
\* to a healthy record.
C1_ReturnsHealthyKey ==
  (Returned /\ \E i \in DOMAIN keys : keys[i].healthy)
    => /\ LastReturned # NULL
       /\ RecordOf(LastReturned).healthy

\* C2: in a pool of N >= 2 records of equal weight, all healthy and at full
\* weight, N consecutive selectKey() results with no other call in between
\* contain every credential.
EqualHealthyPool ==
  /\ Len(keys) >= 2
  /\ \A i, j \in DOMAIN keys : keys[i].originalWeight = keys[j].originalWeight
  /\ \A i \in DOMAIN keys :
       keys[i].healthy /\ keys[i].dynamicWeight = keys[i].originalWeight

C2_WindowCoversPool ==
  (EqualHealthyPool /\ Len(history) >= Len(keys))
    => {keys[i].key : i \in DOMAIN keys}
         \subseteq Range(LastN(history, Len(keys)))

\* C3: with N >= 2 eligible records two consecutive selectKey() calls return
\* the same credential only when its record is alone in its bucket and every
\* other bucket is empty.
OnlyChoice(apiKey) ==
  \A p \in DOMAIN priorityQueues :
    \A j \in DOMAIN priorityQueues[p] : keys[priorityQueues[p][j]].key = apiKey

C3_NoImmediateRepeat ==
  ( /\ Len(history) >= 2
    /\ Cardinality({i \in DOMAIN keys : isAvailable(keys[i])}) >= 2
    /\ LastReturned # NULL
    /\ history[Len(history) - 1] = LastReturned )
    => OnlyChoice(LastReturned)

\* C4: every record always has minWeight <= dynamicWeight <= originalWeight.
C4_WeightBounds ==
  \A i \in DOMAIN keys :
    /\ minWeight <= keys[i].dynamicWeight
    /\ keys[i].dynamicWeight <= keys[i].originalWeight

\* C5: a record whose last reported error is a 401 or 403 turns from
\* unhealthy to healthy only in a step that leaves its dynamicWeight at or
\* above healthThreshold * originalWeight (weight recovery, recoverKey or a
\* global reset).
C5_AuthFailureStaysUnhealthy ==
  [][\A i \in DOMAIN keys :
       ( /\ keys[i].lastErrorCode \in {401, 403}
         /\ ~keys[i].healthy
         /\ keys'[i].healthy )
       => 10 * keys'[i].dynamicWeight
            >= healthThresholdTenths * keys'[i].originalWeight]_vars

\* C6: a record inside the 60 s window of a 503 is not returned by
\* selectKey() while another record is healthy.
InWindow(k) == k.temporaryUnhealthy /\ now < k.temporaryUnhealthyUntil

C6_NotReturnedInWindow ==
  \A i \in DOMAIN keys :
    ( /\ Returned
      /\ LastReturned = keys[i].key
      /\ InWindow(keys[i]) )
    => ~ \E j \in DOMAIN keys : j # i /\ keys[j].healthy

\* C7: a selectKey() call made at or after the deadline of a record a 503
\* made unhealthy leaves that record healthy and in a priority queue, so
\* that it can be returned.
C7_ExpiredBecomesSelectable ==
  [][selectKey =>
       \A i \in DOMAIN keys :
         ( /\ keys[i].temporaryUnhealthy
           /\ now >= keys[i].temporaryUnhealthyUntil )
         => /\ keys'[i].healthy
            /\ i \in UNION {Range(priorityQueues'[p]) : p \in DOMAIN priorityQueues'}]_vars

\* C8 as stated: a selectKey() call made when every record is unhealthy with
\* dynamicWeight = minWeight returns a credential and adds one to
\* totalResetCount.
AllForcedTo(w) ==
  /\ Len(keys) > 0
  /\ \A i \in DOMAIN keys : ~keys[i].healthy /\ keys[i].dynamicWeight = w

NoneAvailableAfterRecovery ==
  /\ Len(keys) > 0
  /\ \A i \in DOMAIN keys : ~isAvailable(AfterRecovery(keys, now)[i])

FreshlyReset ==
  /\ \A i \in DOMAIN keys :
       /\ keys[i].healthy
       /\ keys[i].dynamicWeight = keys[i].originalWeight
       /\ keys[i].errorCount = 0
       /\ keys[i].recoveryAttempts = 0
  /\ priorityList = SortDesc({Priority(keys[i]) : i \in DOMAIN keys})
  /\ Queued = DOMAIN keys
  /\ \A p \in DOMAIN priorityQueues :
       \A j \in DOMAIN priorityQueues[p] :
         Priority(keys[priorityQueues[p][j]]) = p

C10_ReturnsEligibleKey ==
  (Returned /\ LastReturned # NULL) => isAvailable(RecordOf(LastReturned))

\* selectKey() returned a degraded record: unhealthy, at or above minWeight
C10_Witness ==
  /\ Returned
  /\ LastReturned # NULL
  /\ ~RecordOf(LastReturned).healthy
  /\ RecordOf(LastReturned).dynamicWeight >= minWeight

\* C11: handleKeyError(k, 429, _) never raises dynamicWeight(k), lowers it
\* strictly when it was above minWeight before the call, and leaves the
\* weight and the health of every other record as they were.
C11_PenaltyMonotone ==
  [][\A apiKey \in ApiKeys :
       handleKeyError(apiKey, 429) =>
         \A i \in DOMAIN keys :
           IF i = Find(keys, apiKey)
           THEN /\ keys'[i].dynamicWeight <= keys[i].dynamicWeight
                /\ keys[i].dynamicWeight > minWeight
                     => keys'[i].dynamicWeight < keys[i].dynamicWeight
           ELSE /\ keys'[i].dynamicWeight = keys[i].dynamicWeight
                /\ keys'[i].healthy = keys[i].healthy]_vars

\* ------------------------------------------------ dispatcher properties
\* handled is the summary of the request handleRequest handled last; the
\* operator pool is as that call left it (time alone has passed since).
HandledOne == handled.request.pathname # <<>>

\* the credential values the request presented
presentedBearer == secondWord(handled.request.Authorization)
presentedNative == handled.request.xGoogApiKey

\* C12: a request that presents neither a bearer token nor a native key
\* header is answered 401; no key is selected, no upstream call is issued
\* and nothing is reported against a key.
C12_NoCredentialRejected ==
  ( /\ HandledOne
    /\ ~Truthy(presentedBearer)
    /\ ~Truthy(presentedNative) )
    => /\ handled.status = 401
       /\ handled.selectedKey = NULL
       /\ ~handled.fromOperatorPool
       /\ handled.fetches = 0
       /\ handled.reported = <<>>

\* the credentials _parseKeys finds in a presented value
parsedFrom(text) ==
  IF Truthy(text)
  THEN {_parseKeys(keysStringOf(text))[i].key :
          i \in DOMAIN _parseKeys(keysStringOf(text))}
  ELSE {}

\* C13: a request that presents a token, none of its credential headers
\* being the operator shared secret, causes no selection from the operator
\* pool, and the credential of its upstream call is one parsed from a value
\* it presented.
C13_ClientTokenNeverUsesOperatorPool ==
  ( /\ HandledOne
    /\ Truthy(presentedBearer) \/ Truthy(presentedNative)
    /\ presentedBearer # serverAuthToken
    /\ presentedNative # serverAuthToken )
    => /\ ~handled.fromOperatorPool
       /\ handled.fetches > 0
            => handled.selectedKey
                 \in parsedFrom(presentedBearer) \cup parsedFrom(presentedNative)

\* the record of credential apiKey is unhealthy after a 401 or 403
AuthFailed(apiKey) ==
  /\ Find(keys, apiKey) # 0
  /\ ~RecordOf(apiKey).healthy
  /\ RecordOf(apiKey).lastErrorCode \in {401, 403}

\* C14: once an upstream 401 or 403 obtained with operator key k has been
\* relayed, k is unhealthy in the operator pool; and an operator-authenticated
\* request is not forwarded with a key that such a failure left unhealthy
\* while another operator key is healthy.
C14_AuthFailedKeyAvoided ==
  /\ ( /\ handled.usingServerKeys
       /\ handled.fetches = 1
       /\ handled.upstream \in {Resp(401), Resp(403)} )
       => AuthFailed(handled.selectedKey)
  /\ ( /\ handled.usingServerKeys
       /\ handled.fetches = 1
       /\ handled.reported = <<>>
       /\ AuthFailed(handled.selectedKey) )
       => ~ \E j \in DOMAIN keys : keys[j].healthy

\* C15: a non-2xx upstream response with status S obtained with key k is
\* reported exactly once, as handleKeyError(k, S, ...); after a 503 the
\* record of k is temporarily unhealthy.
C15_FailureReportedOnce ==
  ( /\ handled.fetches = 1
    /\ handled.upstream.kind = "response"
    /\ ~ok(handled.upstream) )
    => /\ handled.reported = <<[key |-> handled.selectedKey,
                                code |-> handled.upstream.status]>>
       /\ ( /\ handled.upstream.status = 503
            /\ Find(keys, handled.selectedKey) # 0 )
            => RecordOf(handled.selectedKey).temporaryUnhealthy

\* C16: when the upstream fetch throws a network-level exception, the
\* selected key is reported once with a server-error code (5xx) and the
\* caller is answered 500.
C16_NetworkErrorPenalized ==
  ( /\ handled.fetches = 1
    /\ handled.upstream = NetworkError )
    => /\ handled.status = 500
       /\ Len(handled.reported) = 1
       /\ handled.reported[1].key = handled.selectedKey
       /\ handled.reported[1].code \in 500..599

\* C17: handleRequest issues at most one upstream fetch for a request,
\* whatever the upstream does.
C17_AtMostOneFetch == handled.fetches <= 1

\* a forwarded request failed upstream with a 503 and was answered with it
C17_Witness ==
  /\ handled.fetches = 1
  /\ handled.upstream = Resp(503)
  /\ handled.status = 503

\* the dialect of an inbound pathname: the native API lives under
\* /v1beta/ (not /v1beta/openai/), everything else is the bearer dialect
NativeDialect(pathname) ==
  /\ Len(pathname) >= 2
  /\ pathname[1] = apiVersion
  /\ pathname[2] # "openai"

\* C18: the outbound request carries exactly one of the two auth headers,
\* the one of the inbound path's dialect, holding the selected key; the
\* other is absent.
C18_OneAuthHeaderByDialect ==
  (HandledOne /\ Truthy(handled.selectedKey))
    => IF NativeDialect(handled.request.pathname)
       THEN /\ handled.outbound.xGoogApiKey = handled.selectedKey
            /\ handled.outbound.Authorization = <<>>
       ELSE /\ handled.outbound.Authorization = <<"Bearer", handled.selectedKey>>
            /\ handled.outbound.xGoogApiKey = NULL

\* C19: executeWithRetry never invokes apiCall again after a response with
\* status 400, 401 or 403: the call with that response is the last one of
\* the execution, and the execution throws after it
ClientError(result) == result.kind = "response" /\ result.status \in {400, 401, 403}

C19_NoCallAfterClientError ==
  \A i \in DOMAIN apiCalls :
     ClientError(apiCalls[i]) => i = Len(apiCalls) /\ retryOutcome = "thrown"

\* C20: when the upstream body of a relayed stream ends normally (the read
\* in pull gives done), the stream's entry is removed from the registry,
\* the active count decreases by one, completedStreams increases by one,
\* and the outbound stream closes without error
C20_NaturalEndCompletes ==
  [][\A streamId \in DOMAIN streamBodies :
       pull(streamId, "done") =>
         /\ streamId \notin DOMAIN activeStreams'
         /\ streamStats'.activeStreams = streamStats.activeStreams - 1
         /\ streamStats'.completedStreams = streamStats.completedStreams + 1
         /\ streamBodies'[streamId].state = "closed"]_vars

\* ------------------------------------------------ stream properties
IsPrefix(s, t) == Len(s) <= Len(t) /\ \A i \in DOMAIN s : s[i] = t[i]

\* the records of a relayed stream, read or still queued
Relayed(body) == body.consumed \o body.queue

\* C21 as stated: what a consumer reads from the relayed stream is what was
\* read from the upstream body, nothing added, dropped or reordered
C21_RelayedEqualsUpstream ==
  \A streamId \in DOMAIN streamBodies :
     /\ IsPrefix(streamBodies[streamId].consumed, streamBodies[streamId].received)
     /\ streamBodies[streamId].state # "cancelled"
          => Relayed(streamBodies[streamId]) = streamBodies[streamId].received

\* C21: what a consumer reads from the relayed stream is one stream_start
\* record, then the chunks read from the upstream body, in their order and
\* none dropped, then at most one stream_end record; a consumer that
\* cancels has read a prefix of that
C21_RelayedIsFramedUpstream ==
  \A streamId \in DOMAIN streamBodies :
     LET body == streamBodies[streamId]
         framed == <<"stream_start">> \o body.received
     IN /\ \/ IsPrefix(body.consumed, framed)
           \/ body.consumed = framed \o <<"stream_end">>
        /\ body.state # "cancelled"
             => Relayed(body) \in {framed, framed \o <<"stream_end">>}

\* a consumer has read two chunks of a stream, after the stream_start
C21_Witness ==
  \E streamId \in DOMAIN streamBodies :
     /\ Len(streamBodies[streamId].received) = 2
     /\ streamBodies[streamId].consumed =
          <<"stream_start">> \o streamBodies[streamId].received
     /\ streamBodies[streamId].received[1] # streamBodies[streamId].received[2]

\* C22: when the consumer cancels a relayed stream, the upstream reader is
\* cancelled and the stream's registration is removed from the registry
C22_CancelTearsDown ==
  [][\A streamId \in DOMAIN streamBodies :
       cancel(streamId) =>
         /\ streamBodies'[streamId].upstream = "cancelled"
         /\ streamId \notin DOMAIN activeStreams']_vars

\* ------------------------------------------------ cache properties
\* C23: a response is served from the cache only to a request identical in
\* method, path, query and body to the request whose upstream response was
\* stored, with the same credential, and only to idempotent non-streaming
\* requests
C23_CacheServesSameRequest ==
  served.fromCache =>
    /\ served.response.body = served.request
    /\ served.request.method = "GET"
    /\ served.request.query # "alt=sse"

\* ------------------------------------------------ rotation properties
\* the selectKey() calls counted so far
Selections == Sum(selectCount, DOMAIN selectCount)

\* calls enough to count as a long run: twice the largest sum of weights
\* would take 36, and the rotation repeats after at most 3
LongRun == 6

\* C24: with all keys healthy and no errors, over a long run of selectKey()
\* calls a key with a strictly higher configured weight is returned strictly
\* more often than a key with a lower weight
C24_HigherWeightMoreOften ==
  Selections >= LongRun =>
    \A i, j \in DOMAIN keys :
       keys[i].originalWeight > keys[j].originalWeight
         => selectCount[i] > selectCount[j]

\* ------------------------------------------------ utils.js properties
\* C25: with all keys healthy, integer weights w_i and no errors, every
\* block of sum(w_i) consecutive selectKey() calls from the initial state
\* returns key i exactly w_i times, and all currentWeight values are 0
\* again at the end of each block
C25_BlockReturnsWeights ==
  swrrRun.calls = BlockLength(swrrState.keys) =>
    \A i \in DOMAIN swrrState.keys :
       /\ swrrRun.counts[i] * Scale = swrrState.keys[i].originalWeight
       /\ swrrState.keys[i].currentWeight = 0

\* the second block of the pool "k1:10,k2:5,k3:3" is complete
C25_Witness ==
  /\ swrrRun.blocks = 1
  /\ swrrRun.calls = 18
  /\ swrrRun.calls = BlockLength(swrrState.keys)
  /\ swrrRun.counts = <<10, 5, 3>>

\* ------------------------------------------------ parse properties
\* the text of an entry before its first ':', and after it (<<>> when the
\* entry has no ':')
BeforeColon(entry) ==
  LET hits == {i \in DOMAIN entry : entry[i] = ":"}
  IN IF hits = {} THEN entry
     ELSE SubSeq(entry, 1, (CHOOSE i \in hits : \A j \in hits : i <= j) - 1)

HasColon(entry) == \E i \in DOMAIN entry : entry[i] = ":"

\* the text between the first ':' of an entry and its next ':' or its end
AfterColon(entry) ==
  LET hits == {i \in DOMAIN entry : entry[i] = ":"}
      first == CHOOSE i \in hits : \A j \in hits : i <= j
  IN BeforeColon(SubSeq(entry, first + 1, Len(entry)))

\* the weight an entry states: the integer after ':', or 1 when the
\* weight is missing or non-numeric
StatedWeight(entry) ==
  IF ~HasColon(entry) THEN 1
  ELSE IF parseInt(AfterColon(entry)).nan THEN 1
  ELSE parseInt(AfterColon(entry)).value

\* the comma-separated entries of a text, those that Keep holds of
Entries(text, Keep(_)) ==
  LET hits == {i \in DOMAIN text : text[i] = ","}
      from(n) == IF n = 0 THEN 1
                 ELSE (CHOOSE S \in SUBSET hits :
                         /\ Cardinality(S) = n
                         /\ \A i \in S, j \in hits \ S : i < j)
      cuts == [n \in 0..Cardinality(hits) |->
                 LET before == {i \in hits :
                                  Cardinality({j \in hits : j <= i}) = n}
                     after == {i \in hits :
                                 Cardinality({j \in hits : j <= i}) = n + 1}
                     lo == IF n = 0 THEN 1 ELSE (CHOOSE i \in before : TRUE) + 1
                     hi == IF after = {} THEN Len(text)
                           ELSE (CHOOSE i \in after : TRUE) - 1
                 IN SubSeq(text, lo, hi)]
      all == [n \in 1..(Cardinality(hits) + 1) |-> cuts[n - 1]]
  IN SelectSeq(all, Keep)

\* the pool the claim describes for the entries kept
StatedPool(text, Keep(_)) ==
  LET kept == Entries(text, Keep)
  IN [i \in DOMAIN kept |->
        [key |-> trim(BeforeColon(kept[i])),
         originalWeight |-> StatedWeight(kept[i]) * Scale,
         dynamicWeight |-> StatedWeight(kept[i]) * Scale,
         healthy |-> TRUE,
         errorCount |-> 0]]

\* the fields of the parsed records the claim speaks of
ParsedPool ==
  [i \in DOMAIN parseRun.initialKeys |->
     [key |-> parseRun.initialKeys[i].key,
      originalWeight |-> parseRun.initialKeys[i].originalWeight,
      dynamicWeight |-> parseRun.initialKeys[i].dynamicWeight,
      healthy |-> parseRun.initialKeys[i].healthy,
      errorCount |-> parseRun.initialKeys[i].errorCount]]

NonBlankEntry(entry) == trim(entry) # <<>>
NonBlankCredential(entry) == trim(BeforeColon(entry)) # <<>>

\* C26 as stated: the pool holds, in spec order, exactly one record per
\* non-blank comma-separated entry, with credential = the trimmed text
\* before ':', originalWeight = dynamicWeight = the integer after ':' or 1
\* when the weight is missing or non-numeric, healthy = true and
\* errorCount = 0
C26_RecordPerNonBlankEntry ==
  parseRun.done => ParsedPool = StatedPool(parseRun.keysString, NonBlankEntry)

\* C26: the same, with one record per entry whose text before ':' is not
\* blank: an entry such as ":2" produces no record
C26_RecordPerCredential ==
  parseRun.done => ParsedPool = StatedPool(parseRun.keysString, NonBlankCredential)

\* " k:2," has been parsed: one record, key k, weight 2
C26_Witness ==
  /\ parseRun.done
  /\ parseRun.keysString = <<" ", "k", ":", "2", ",">>
  /\ Len(parseRun.initialKeys) = 1
  /\ parseRun.initialKeys[1].key = <<"k">>
  /\ parseRun.initialKeys[1].originalWeight = 2 * Scale

\* ------------------------------------------------ log properties
\* text holds part as a run of consecutive characters
Contains(text, part) ==
  \E i \in 1..(Len(text) - Len(part) + 1) :
     SubSeq(text, i, i + Len(part) - 1) = part

\* C28: no log entry written by the KeyManager or the dispatcher, at any
\* log level, contains a credential of the pool in full
C28_NoCredentialInFull ==
  \A entry \in logged.entries :
     \A i \in DOMAIN parseRun.initialKeys :
        ~Contains(entry.text, parseRun.initialKeys[i].key)

\* ------------------------------------------------ empty-pool properties
\* the keys string of the pool a request that is not operator-authenticated
\* brings along
ClientTokenStr(request) ==
  IF Truthy(secondWord(request.Authorization))
  THEN secondWord(request.Authorization)
  ELSE IF Truthy(request.xGoogApiKey) THEN request.xGoogApiKey
  ELSE ""

\* the pool the handled request selects from has no record
ZeroRecordPool ==
  IF handled.usingServerKeys THEN keys = <<>>
  ELSE _parseKeys(keysStringOf(ClientTokenStr(handled.request))) = <<>>

\* the synthesized 500 "No available API keys.": nothing was sent upstream
NoKeysResponse ==
  /\ handled.status = 500
  /\ handled.fetches = 0
  /\ handled.selectedKey = NULL

\* C27: for a pool with zero records selectKey() returns null without
\* raising, and the dispatcher turns that null into its one synthesized
\* 500 'no keys' response
C27_ZeroRecordPoolGives500 ==
  (handled # NoRequest /\ ZeroRecordPool) =>
     /\ handled.usingServerKeys
          \/ clientKey(handled.request, FALSE, now) = NULL
     /\ NoKeysResponse

\* ------------------------------------------------ key-choice properties
\* C29: the credential attached to an operator-authenticated request is
\* the value returned by a selectKey() call on the operator pool made
\* while handling that request
C29_KeyComesFromSelectKey ==
  (/\ handled # NoRequest
   /\ handled.usingServerKeys
   /\ handled.fetches > 0) =>
     handled.selectedKey \in Range(handled.selectKeyReturned)

\* ------------------------------------------------ low-weight properties
\* handleKeyError has just left key i at or below minWeight
LeftAtMinWeight(i) ==
  /\ i \in DOMAIN keys'
  /\ keys'[i].errorCount = keys[i].errorCount + 1
  /\ keys'[i].dynamicWeight <= minWeight

\* key i, at or below minWeight and temporarily unhealthy, goes through a
\* selectKey() call after its window has expired, without a global reset
\* and without a weight recovery that makes it healthy
WindowExpires(i) ==
  /\ keys[i].dynamicWeight <= minWeight
  /\ ~keys[i].healthy
  /\ keys[i].temporaryUnhealthy
  /\ now >= keys[i].temporaryUnhealthyUntil
  /\ keys' = selectKeyOutcome(State, now).st.ks
  /\ totalResetCount' = totalResetCount
  /\ ~_attemptWeightRecovery(keys, now)[i].healthy

\* C30: a key that handleKeyError leaves with dynamicWeight <= minWeight is
\* unhealthy, whatever the error code, and the expiry of the temporary
\* window does not make it healthy
C30_LowWeightStaysUnhealthy ==
  [][\A i \in DOMAIN keys :
       /\ LeftAtMinWeight(i) => ~keys'[i].healthy
       /\ WindowExpires(i) => ~keys'[i].healthy]_vars

\* ------------------------------------------------ markAsUnhealthy properties
\* the step is markAsUnhealthy(keys[i].key), key i found in the pool
Marked(i) ==
  /\ keys' = handleKeyErrorOutcome(keys, keys[i].key, 500, now)
  /\ keys'[i].errorCount = keys[i].errorCount + 1
  /\ keys'[i].lastErrorCode = 500

\* C31: immediately after markAsUnhealthy(k) for a key k of the pool,
\* k.healthy is false, for every configured weight and every prior state
C31_MarkedIsUnhealthy ==
  [][\A i \in DOMAIN keys : Marked(i) => ~keys'[i].healthy]_vars

\* ------------------------------------------------ retry properties
\* the maxAttempts of both retry tables
TableMaxAttempts == retryConfig.maxAttempts

\* C32: shouldRetry(code, attempt) returns true exactly when code is one of
\* 429, 503, 500, 502, 504 and attempt <= maxAttempts of that code's
\* table; it returns false, without raising, for every other code
C32_ShouldRetryTable ==
  retryCheck.result # "none" =>
     retryCheck.result =
       (IF /\ retryCheck.errorCode \in {429, 503, 500, 502, 504}
           /\ retryCheck.attempt <= TableMaxAttempts
        THEN "true" ELSE "false")

\* the responses among the apiCall() outcomes that are not ok
NonOkResponses ==
  {i \in DOMAIN apiCalls : apiCalls[i].kind = "response" /\ ~ok(apiCalls[i])}

\* C33: executeWithRetry invokes apiCall at most maxAttempts times and then
\* ends, returning an ok response or throwing; it calls handleKeyError
\* exactly once per non-ok response received
C33_BoundedRetries ==
  retryOutcome # "idle" =>
     /\ Len(apiCalls) <= retryOptions.maxAttempts
     /\ retryOutcome = "running" => Len(apiCalls) < retryOptions.maxAttempts
     /\ retryOutcome = "returned" => ok(apiCalls[Len(apiCalls)])
     /\ retryOutcome \in {"running", "returned", "thrown"}
     /\ handleKeyErrorCalls = Cardinality(NonOkResponses)

\* an execution with maxAttempts = 3 has ended after three apiCall()
\* invocations, two of them answered with a response that is not ok
C33_Witness ==
  /\ retryOutcome = "thrown"
  /\ retryOptions.maxAttempts = 3
  /\ Len(apiCalls) = 3
  /\ handleKeyErrorCalls = 2

\* ------------------------------------------------ timeout-sweep properties
\* the step is cleanupTimeoutStreams(timeoutMs)
Swept(timeoutMs) ==
  /\ activeStreams' = cleanupTimeoutStreamsOutcome(activeStreams, streamStats,
                                                   timeoutMs, now).activeStreams
  /\ streamStats' = cleanupTimeoutStreamsOutcome(activeStreams, streamStats,
                                                 timeoutMs, now).streamStats
  /\ streamBodies' = streamBodies
  /\ now' = now

\* the sweep leaves no registration older than the timeout
NoneOlderRemains(timeoutMs) ==
  \A id \in DOMAIN activeStreams' : now - activeStreams'[id].startTime <= timeoutMs

\* the sweep leaves the registrations not older than the timeout as they are
YoungerUnchanged(timeoutMs) ==
  \A id \in DOMAIN activeStreams :
     now - activeStreams[id].startTime <= timeoutMs =>
        id \in DOMAIN activeStreams' /\ activeStreams'[id] = activeStreams[id]

\* the upstream reader of every stream the sweep removed has been cancelled
RemovedAreCancelled ==
  \A id \in DOMAIN activeStreams \ DOMAIN activeStreams' :
     streamBodies'[id].upstream = "cancelled"

\* C34: after a timeout sweep no registration older than the timeout
\* remains, registrations not older than the timeout are unchanged, and the
\* upstream reader of every removed stream has been cancelled
C34_SweepRemovesAndCancels ==
  [][\A timeoutMs \in TimeoutsMs :
       Swept(timeoutMs) =>
          /\ NoneOlderRemains(timeoutMs)
          /\ YoungerUnchanged(timeoutMs)
          /\ RemovedAreCancelled]_vars

\* ------------------------------------------------ starvation properties
\* C35: with all records healthy and no errors, every record is returned
\* by selectKey() infinitely often under repeated calls, for arbitrary
\* configured weights
C35_NoStarvation ==
  \A i \in 1..3 : []<>(lastSelectedKey = keys[i].key)

\* ------------------------------------------------ recovery properties
\* the weight one recovery adds to k
RecoveryAmount(k) == (k.originalWeight * recoveryRateTenths) \div 10

\* the recoveries k still has bring its weight to the health threshold
EnoughRecoveryLeft(k) ==
  /\ k.dynamicWeight < k.originalWeight
  /\ 10 * (k.dynamicWeight
             + (maxRecoveryAttempts - k.recoveryAttempts) * RecoveryAmount(k))
       >= k.originalWeight * healthThresholdTenths

\* C36: an unhealthy record for which no further error is reported becomes
\* healthy again through weight recovery alone as selectKey() keeps being
\* called, however many errors and recoveries it went through before: the
\* recoveries it has left always reach the health threshold
C36_UnhealthyRecovers ==
  \A i \in DOMAIN keys : ~keys[i].healthy => EnoughRecoveryLeft(keys[i])

ErrorDuringProbe(i) ==
  /\ healthCheckRun.awaited = i
  /\ last_checked[i] >= healthCheckRun.now
  /\ keys[i].lastErrorCode # 0
  /\ ~keys[i].healthy

\* C38: when an error for k is reported by handleKeyError while a background
\* health probe of k awaits its upstream response, the later success of the
\* probe does not erase the error: k is still unhealthy with its penalized
\* weight
C38_ProbeKeepsError ==
  [][\A i \in DOMAIN keys :
       (ErrorDuringProbe(i) /\ healthCheckResume(Resp(200)))
         => /\ ~keys'[i].healthy
            /\ keys'[i].dynamicWeight = keys[i].dynamicWeight
            /\ keys'[i].dynamicWeight < keys'[i].originalWeight]_vars

\* ------------------------------------------------ concurrency properties
\* the request and the summary of a step of handleRequestBegin
Arrives(request) == \E preferReuse \in BOOLEAN : handleRequestBegin(request, preferReuse)

\* C39: a request that arrives while maxConcurrentRequests upstream calls
\* are in flight issues no upstream call, changes no key's state and is
\* answered by handleRequest with a synthesized 500 response (handleRequest
\* does not throw), in the native and in the bearer dialect; and the
\* in-flight count never exceeds maxConcurrentRequests
C39_RefusedAtLimit ==
  [][/\ \A request \in ConcurrentRequests :
          (activeRequestsSize >= maxConcurrentRequests /\ Arrives(request))
            => /\ inFlight' = inFlight
               /\ handled'.fetches = 0
               /\ keys' = keys
               /\ handled'.status = 500
     /\ activeRequestsSize' <= maxConcurrentRequests]_vars

\* ------------------------------------------------ client-pool properties
\* the first listed key among the records of the highest weight, NULL when
\* there is no record
FirstHighestWeight(ks) ==
  IF ks = <<>> THEN NULL
  ELSE ks[CHOOSE i \in DOMAIN ks :
            /\ \A j \in DOMAIN ks : ks[j].originalWeight <= ks[i].originalWeight
            /\ \A j \in 1..(i - 1) : ks[j].originalWeight < ks[i].originalWeight].key

\* the handled request brought a credential spec of its own
ClientSpecHandled ==
  /\ handled # NoRequest
  /\ ~handled.usingServerKeys
  /\ Truthy(ClientTokenStr(handled.request))

\* C40: for a client-supplied credential spec the selected key is a function
\* of the spec string alone: the first listed key among those with the
\* highest weight, whatever requests were handled and whatever errors the
\* upstream answered before
C40_KeyIsFunctionOfSpec ==
  ClientSpecHandled =>
    handled.selectedKey =
      FirstHighestWeight(_parseKeys(keysStringOf(ClientTokenStr(handled.request))))

====
